---- MODULE Spec2Model ----
(***************************************************************************)
(* Model of miniflightradar: the position store (storage/storage.go) and   *)
(* the /ws/flights session (backend/ws.go).                                *)
(*                                                                         *)
(* Conventions.  Strings that the code transforms (icao24, callsign) are   *)
(* sequences of one-character strings, so that TrimSpace/ToLower/ToUpper   *)
(* and the airline-prefix scan are computed, not assumed.  Floats are      *)
(* integers plus the kinds NaN/+Inf/-Inf.  A Unix timestamp is a pair      *)
(* <<hi, lo>> standing for hi*10^9 + lo, so that timestamps of more than   *)
(* ten decimal digits can be written down.  Store keys are structured:     *)
(* pos keys are <<icao, digits>> with digits the "%010d" rendering of ts;  *)
(* scans order them as the byte strings order.                             *)
(***************************************************************************)
EXTENDS Integers, Sequences, FiniteSets, TLC

VARIABLES
    clock,      \* seconds since process start (drives TTL expiry)
    pos,        \* pos:{icao}:{ts}  -> [val, exp]
    now,        \* now:{icao}       -> [val, exp]
    mapcs,      \* map:cs:{cs}      -> [val, exp]
    panicked,   \* the process died of an unrecovered panic
    lastOp,     \* the store operation that ran last
    lastBatch,  \* the batch given to the last recorded UpsertStates call
    nowWritten  \* the now keys the last RebuildNow wrote

storeVars ==
    <<clock, pos, now, mapcs, panicked, lastOp, lastBatch, nowWritten>>

\* one /ws/flights session
VARIABLES
    status,     \* "started": upgraded, reader running; "open": in the select
                \* loop; "failed": a diff write failed, the handler is
                \* returning; "closed": handler returned
    seq, inflight, bufferHigh, pending, last,
    hasBBox, bboxVals,
    ackCh,      \* acks handed from the reader to the loop
    updCh,      \* the session's UpdateBus handle: notifications buffered
    wire,       \* seq of every diff written, in order
    client,     \* the diffs written so far applied in order to an empty map
    readCur,    \* the key-to-item map read for the latest diff written
    readBBox,   \* the viewport in force at that read, NoBBox when none
    firstDiff,  \* the first diff written, against the items current at
                \* its read: items it lacks, items it adds, keys it deletes
    firstBy,    \* what triggered the first diff, while it is the only one
    ackSeen,    \* the reader has received an ack whose seq is the current seq
    missed,     \* notifications handled while blocked, since the latest
                \* diff or the latest accepted ack reporting a high buffer
    coalesced,  \* the latest diff was written after several missed
                \* notifications
    burst,      \* diffs written since the last notification was handled
    throttled   \* the latest accepted ack reported buffered > BufferLimit

sendVars == <<seq, inflight, pending, last>>
viewVars == <<hasBBox, bboxVals>>
histVars ==
    <<wire, client, readCur, readBBox, firstDiff, firstBy, ackSeen, missed,
      coalesced, burst, throttled>>

wsVars ==
    <<status, sendVars, bufferHigh, viewVars, ackCh, updCh, histVars>>

\* the ingester (backend.IngestLoop)
VARIABLES
    ing         \* pc: "fetch" when fetchOnce is due, "wait" while the timer
                \* runs; wakeAt: when the timer fires; and the outcome of
                \* the latest fetchOnce: kind, the Retry-After and poll
                \* interval it saw, the sleep it returned, the ttl it gave
                \* TouchNow, when it was handled, the now keys live then

ingVars == <<ing>>

\* the UpdateBus
VARIABLES
    handles,    \* subscriber -> notifications buffered in its handle
    busOp       \* the bus operation that ran last, and for whom

busVars == <<handles, busOp>>

\* the HTTP server: WS handshakes, the registry, shutdown (app.Run)
VARIABLES
    conns,      \* connection -> where its handler is, and the frames
                \* written to it
    hs,         \* the latest /ws/flights request and its answer
    wsClients,  \* the registry of upgraded connections
    proc        \* phase of Run, and the registry as it was at the signal

srvVars == <<conns, hs, wsClients, proc>>

\* one request through security.SecurityMiddleware
VARIABLES
    req,        \* the request
    resp        \* the answer, "none" until the request is served

apiVars == <<req, resp>>

\* the session tokens (security.signJWT / validateJWT)
VARIABLES
    jwtSecret,  \* the secret the process signs and validates with
    issued,     \* every token signJWT has returned
    presented   \* the token validateJWT saw last, when, under which
                \* secret, and its verdict

jwtVars == <<jwtSecret, issued, presented>>

\* several /ws/flights sessions side by side
VARIABLES
    sess        \* connection -> where its handler is ("idle", "open",
                \* "closed"), the loop's seq, inflight, bufferHigh, pending
                \* and last, the header of the frame the reader read last,
                \* and why the handler returned

sessVars == <<sess>>

\* what the latest send attempt that got past trySend's guard did
VARIABLES
    sent        \* kind ("none", "empty": nothing to send, "failed": the
                \* write failed, "diff": written), last and cur as the
                \* attempt found them, the upsert and delete sets it built,
                \* seq before and after, pending after, whether the wire
                \* grew

diffVars == <<sent>>

\* one session's 30-second ticker and the time of its last data frame
VARIABLES
    wsNow,      \* seconds since the handler started
    lastSend,   \* wsNow at the latest diff or hb written, 0 before any
    nextTick,   \* wsNow at which ping.C fires next
    tickFrames  \* the frames the latest tick wrote, in order

beatVars == <<wsNow, lastSend, nextTick, tickFrames>>

\* one connection and the tasks that write frames to it
VARIABLES
    mu,         \* wsConn.mu: the writer holding it, "none" when free
    wpc,        \* writer -> "idle", "locked", "header", "payload", "flushed"
    wcnt,       \* writer -> frames it has started
    wbuf,       \* wsConn.buf: chunks written and not flushed
    sock,       \* chunks handed to the network connection, in order
    broken      \* the buffered writer has met an error (it keeps it)

wireVars == <<mu, wpc, wcnt, wbuf, sock, broken>>

\* IngestLoop step by step, and its stop channel
VARIABLES
    stopCh,     \* the stop channel has been closed
    il          \* IngestLoop: where it is ("start", "fetching": inside
                \* FetchOpenSkyData, "select", "returned"), whether the
                \* timer of the select has fired, fetches started

stopVars == <<stopCh, il>>

\* the goroutines of the /ws/flights handlers
VARIABLES
    task        \* connection -> hpc: where the handler is ("idle",
                \* "loop": at its select, "writing": in a frame write,
                \* "exiting": on a return statement, its deferred calls
                \* still to run, "returned");
                \* reader: the reader goroutine ("none", "running",
                \* "returned"); done: the done channel is closed; net: the
                \* connection is open on the server's side; why: what
                \* made the loop exit; rwhy: what made the reader end

taskVars == <<task>>

sysVars ==
    <<ingVars, busVars, srvVars, apiVars, jwtVars, sessVars, diffVars,
      beatVars,
      wireVars,
      stopVars,
      taskVars>>

vars == <<storeVars, wsVars, sysVars>>

-----------------------------------------------------------------------------
(* Program constants and bounds *)

\* the store: TTL of now keys and of pos/map keys (seconds), width of the
\* ts in a pos key, fewest fields of an accepted row
NowTTL == 60
Retention == 604800
PadWidth == 10
MinFields == 7

\* the session: buffered bytes above which the client is throttled, capacity
\* of the ack channel and of an UpdateBus handle
BufferLimit == 1000000
AckCap == 4
UpdCap == 1

\* bounds of the model: rows per batch, seconds of run time, diffs per
\* session, acks waiting in the channel, missed notifications counted
MaxBatch == 2
MaxClock == 120
MaxSeq == 3
MaxQueued == 1
MaxMissed == 2

\* more bounds: subscribers of the UpdateBus, connections asking for an
\* upgrade
MaxSubs == 4
MaxConns == 2

\* the session's ticker period and the silence after which a tick sends hb
\* (seconds)
PingEvery == 30
HbAfter == 25

\* more bounds: ticks of a session's ticker, frames per writing task
MaxTicks == 2
MaxFrames == 2

\* more bounds: fetches of one IngestLoop
MaxFetches == 3

\* more bounds: tokens signed, secrets the process has run with
MaxIssued == 2
MaxSecrets == 2

\* one more bound: half retention periods of run time
MaxHalves == 3

TsBase == 10^9
Epoch == <<1, 700000000>>

-----------------------------------------------------------------------------
(* strings *)

LowerSeq == <<"a","b","c","d","e","f","g","h","i","j","k","l","m",
              "n","o","p","q","r","s","t","u","v","w","x","y","z">>
UpperSeq == <<"A","B","C","D","E","F","G","H","I","J","K","L","M",
              "N","O","P","Q","R","S","T","U","V","W","X","Y","Z">>
UpperSet == {UpperSeq[i] : i \in 1..26}
Spaces == {" "}

LowerSet == {LowerSeq[i] : i \in 1..26}
LowerOf == [c \in UpperSet |-> LowerSeq[CHOOSE i \in 1..26 : UpperSeq[i] = c]]
UpperOf == [c \in LowerSet |-> UpperSeq[CHOOSE i \in 1..26 : LowerSeq[i] = c]]

LowerChar(c) == IF c \in UpperSet THEN LowerOf[c] ELSE c
UpperChar(c) == IF c \in LowerSet THEN UpperOf[c] ELSE c

RECURSIVE TrimLeft(_)
TrimLeft(s) ==
    IF s # <<>> /\ Head(s) \in Spaces THEN TrimLeft(Tail(s)) ELSE s

RECURSIVE TrimRight(_)
TrimRight(s) ==
    IF s # <<>> /\ s[Len(s)] \in Spaces
    THEN TrimRight(SubSeq(s, 1, Len(s) - 1)) ELSE s

TrimSpace(s) == TrimRight(TrimLeft(s))

ToLower(s) == [i \in 1..Len(s) |-> LowerChar(s[i])]
ToUpper(s) == [i \in 1..Len(s) |-> UpperChar(s[i])]

normalizeICAO(s) == ToLower(TrimSpace(s))
normalizeCallsign(s) == ToUpper(TrimSpace(s))

-----------------------------------------------------------------------------
(* airline codes *)

\* entries of the IATA -> ICAO table (AA, BA, U2, SA)
iataToIcao ==
    { << <<"A","A">>, <<"A","A","L">> >>,
      << <<"B","A">>, <<"B","A","W">> >>,
      << <<"U","2">>, <<"E","Z","Y">> >>,
      << <<"S","A">>, <<"S","A","A">> >> }

icaoToIata == { <<e[2], e[1]>> : e \in iataToIcao }

Lookup(table, k) ==
    IF \E e \in table : e[1] = k
    THEN (CHOOSE e \in table : e[1] = k)[2] ELSE <<>>

RECURSIVE AlphaRun(_, _)
AlphaRun(cs, i) ==
    IF i < Len(cs) /\ cs[i + 1] \in UpperSet THEN AlphaRun(cs, i + 1) ELSE i

convertCallsignAlternate(raw) ==
    LET cs == normalizeCallsign(raw)
        i == AlphaRun(cs, 0)
        prefix == SubSeq(cs, 1, i)
        suffix == SubSeq(cs, i + 1, Len(cs))
    IN  IF cs = <<>> \/ i = 0 THEN <<>>
        ELSE IF i = 2 /\ Lookup(iataToIcao, prefix) # <<>>
             THEN Lookup(iataToIcao, prefix) \o suffix
        ELSE IF i = 3 /\ Lookup(icaoToIata, prefix) # <<>>
             THEN Lookup(icaoToIata, prefix) \o suffix
        ELSE <<>>

-----------------------------------------------------------------------------
(* timestamps and the key format *)

TsPositive(t) == t[1] > 0 \/ (t[1] = 0 /\ t[2] > 0)
TsLess(a, b) == a[1] < b[1] \/ (a[1] = b[1] /\ a[2] < b[2])
TsAdd(t, d) == << t[1] + ((t[2] + d) \div TsBase), (t[2] + d) % TsBase >>
NowUnix(clk) == TsAdd(Epoch, clk)

RECURSIVE Digits(_)
Digits(n) == IF n < 10 THEN <<n>> ELSE Append(Digits(n \div 10), n % 10)

PadLeft(d, w) ==
    IF Len(d) >= w THEN d ELSE [i \in 1..(w - Len(d)) |-> 0] \o d

TsDigits(t) ==
    IF t[1] = 0 THEN Digits(t[2]) ELSE Digits(t[1]) \o PadLeft(Digits(t[2]), 9)

\* fmt.Sprintf("%010d", ts): at least PadWidth digits, more when ts needs them
Fmt010(t) == PadLeft(TsDigits(t), PadWidth)

keyPos(icao, t) == <<icao, Fmt010(t)>>

\* byte-wise string order on digit strings
RECURSIVE LexLess(_, _)
LexLess(a, b) ==
    IF a = <<>> THEN b # <<>>
    ELSE IF b = <<>> THEN FALSE
    ELSE IF a[1] # b[1] THEN a[1] < b[1]
    ELSE LexLess(Tail(a), Tail(b))

-----------------------------------------------------------------------------
(* numbers of a decoded row *)

F(v) == [k |-> "f", v |-> v]
NaN == [k |-> "nan", v |-> 0]
PosInf == [k |-> "pinf", v |-> 0]
NegInf == [k |-> "ninf", v |-> 0]
NoNum == [k |-> "none", v |-> 0]

toFloatOk(x) == x.k # "none"
IsNaN(x) == x.k = "nan"
IsInf(x) == x.k \in {"pinf", "ninf"}

clamp(x, min, max) ==
    IF IsNaN(x) \/ IsInf(x) THEN 0
    ELSE IF x.v < min THEN min
    ELSE IF x.v > max THEN max
    ELSE x.v

\* math.Mod: the result has the sign of the dividend
GoMod(v, m) == IF v >= 0 THEN v % m ELSE 0 - ((0 - v) % m)

normAngle360(x) ==
    IF IsNaN(x) \/ IsInf(x) THEN 0
    ELSE LET r == GoMod(x.v, 360)
             r2 == IF r < 0 THEN r + 360 ELSE r
         IN  IF r2 = 360 THEN 0 ELSE r2

nonNegFinite(x) == IF IsNaN(x) \/ IsInf(x) \/ x.v < 0 THEN 0 ELSE x.v

-----------------------------------------------------------------------------
(* Point and its JSON encoding *)

EmptyObj == [x \in {} |-> 0]

Opt(name, v) == IF v = 0 THEN EmptyObj ELSE name :> v

\* json.Marshal(Point): alt, track and speed carry omitempty
Marshal(p) ==
    [icao24 |-> p.icao24, callsign |-> p.callsign, lon |-> p.lon,
     lat |-> p.lat, ts |-> p.ts]
      @@ Opt("alt", p.alt) @@ Opt("track", p.track) @@ Opt("speed", p.speed)

Field(j, name) == IF name \in DOMAIN j THEN j[name] ELSE 0

\* json.Unmarshal into Point: absent members keep the zero value
Unmarshal(j) ==
    [icao24 |-> j.icao24, callsign |-> j.callsign, lon |-> j.lon,
     lat |-> j.lat, alt |-> Field(j, "alt"), track |-> Field(j, "track"),
     speed |-> Field(j, "speed"), ts |-> j.ts]

-----------------------------------------------------------------------------
(* the key space: a map from keys to [val, exp]; a key is live while       *)
(* exp > clock                                                             *)

EmptyMap == [x \in {} |-> 0]

\* tx.Set(key, val, {Expires: true, TTL: ttl})
Set(m, k, v, clk, ttl) == (k :> [val |-> v, exp |-> clk + ttl]) @@ m

Sweep(m, clk) == [k \in {x \in DOMAIN m : m[x].exp > clk} |-> m[k]]

DB(p, n, m) == [pos |-> p, now |-> n, mapcs |-> m]

-----------------------------------------------------------------------------
(* Store.UpsertStates *)

TsField(v) == [ok |-> TRUE, v |-> v]
NoTs == [ok |-> FALSE, v |-> <<0, 0>>]

\* rows the validation lets through
RowValid(st) ==
    /\ st.n >= MinFields
    /\ normalizeICAO(st.icao) # <<>>
    /\ toFloatOk(st.lon) /\ toFloatOk(st.lat)
    /\ ~IsNaN(st.lon) /\ ~IsNaN(st.lat)

\* the first field read past the validated ones is st[13]
RowPanics(st) == RowValid(st) /\ st.n <= 13

\* the Point built from a row
RowPoint(st, clk) ==
    LET ts0 == IF st.lcon.ok /\ TsPositive(st.lcon.v) THEN st.lcon.v
               ELSE IF st.tpos.ok THEN st.tpos.v
               ELSE <<0, 0>>
        alt0 == IF toFloatOk(st.galt) THEN st.galt
                ELSE IF toFloatOk(st.balt) THEN st.balt
                ELSE F(0)
    IN  [icao24 |-> normalizeICAO(st.icao),
         callsign |-> normalizeCallsign(st.cs),
         lon |-> clamp(st.lon, -180, 180),
         lat |-> clamp(st.lat, -90, 90),
         alt |-> nonNegFinite(alt0),
         track |-> IF toFloatOk(st.trk) THEN normAngle360(st.trk) ELSE 0,
         speed |-> IF toFloatOk(st.vel) THEN nonNegFinite(st.vel) ELSE 0,
         ts |-> IF TsPositive(ts0) THEN ts0 ELSE NowUnix(clk)]

\* the writes of one accepted row
WriteRow(db, st, clk) ==
    LET p == RowPoint(st, clk)
        b == Marshal(p)
        alt == convertCallsignAlternate(p.callsign)
        m1 == IF p.callsign # <<>>
              THEN Set(db.mapcs, p.callsign, p.icao24, clk, Retention)
              ELSE db.mapcs
        m2 == IF p.callsign # <<>> /\ alt # <<>>
              THEN Set(m1, alt, p.icao24, clk, Retention)
              ELSE m1
    IN  DB(Set(db.pos, keyPos(p.icao24, p.ts), b, clk, Retention),
           Set(db.now, p.icao24, b, clk, NowTTL),
           m2)

\* the loop over the batch, from row i on; panic is set when a row panics,
\* and db then holds the writes of the rows before it
RECURSIVE UpsertFrom(_, _, _, _)
UpsertFrom(db, states, i, clk) ==
    IF i > Len(states) THEN [db |-> db, panic |-> FALSE]
    ELSE IF ~RowValid(states[i]) THEN UpsertFrom(db, states, i + 1, clk)
    ELSE IF RowPanics(states[i]) THEN [db |-> db, panic |-> TRUE]
    ELSE UpsertFrom(WriteRow(db, states[i], clk), states, i + 1, clk)

UpsertStates(db, states, clk) == UpsertFrom(db, states, 1, clk)

-----------------------------------------------------------------------------
(* Store.TouchNow and Store.RebuildNow *)

TouchNow_AllKeys(db, ttl, clk) ==
    LET t == IF ttl <= 0 THEN NowTTL ELSE ttl
        touch(m) == [k \in DOMAIN m |-> [val |-> m[k].val, exp |-> clk + t]]
    IN  DB(touch(db.pos), touch(db.now), touch(db.mapcs))

TouchNow(db, ttl, clk) ==
    LET t == IF ttl <= 0 THEN NowTTL ELSE ttl
    IN  DB(db.pos,
           [k \in DOMAIN db.now |-> [val |-> db.now[k].val, exp |-> clk + t]],
           db.mapcs)

\* the icaos that have a pos key, and for each the value under its last key
\* in ascending key order
PosIcaos(p) == {k[1] : k \in DOMAIN p}

LastKey(p, icao) ==
    CHOOSE k \in DOMAIN p :
        /\ k[1] = icao
        /\ \A o \in DOMAIN p : o[1] = icao /\ o # k => LexLess(o[2], k[2])

latest(p) == [icao \in PosIcaos(p) |-> p[LastKey(p, icao)].val]

\* callsigns restored by RebuildNow, each with the icaos competing for it
RebuildCallsigns(lt) ==
    {normalizeCallsign(Unmarshal(lt[i]).callsign) :
        i \in {x \in DOMAIN lt : Unmarshal(lt[x]).callsign # <<>>}}

RebuildOwners(lt, cs) ==
    {i \in DOMAIN lt : /\ Unmarshal(lt[i]).callsign # <<>>
                       /\ normalizeCallsign(Unmarshal(lt[i]).callsign) = cs}

\* the now keys RebuildNow writes: one per entry of the latest map
RebuildWrites(db) == DOMAIN latest(db.pos)

\* win[cs] is the icao whose write to map:cs:{cs} comes last in the range
\* over the Go map
RebuildNow(db, win, clk) ==
    LET lt == latest(db.pos)
    IN  IF DOMAIN lt = {} THEN db
        ELSE DB(db.pos,
                [i \in DOMAIN lt |-> [val |-> lt[i], exp |-> clk + NowTTL]]
                    @@ db.now,
                [cs \in RebuildCallsigns(lt) |->
                    [val |-> win[cs], exp |-> clk + Retention]] @@ db.mapcs)

-----------------------------------------------------------------------------
(* rows fed to the store *)

IcaoA == <<"a">>
IcaoB == <<"b">>
T1 == <<1, 700000000>>
T2 == <<1, 700000060>>
TWide == <<10, 0>>

FullRow(icao, cs, lcon, lon) ==
    [n |-> 17, icao |-> icao, cs |-> cs, lcon |-> lcon, tpos |-> NoTs,
     lon |-> lon, lat |-> F(10), balt |-> NoNum, vel |-> F(200),
     trk |-> F(90), galt |-> F(1000)]

\* the ingester's rows: well-formed state vectors of two aircraft
IngestRows ==
    { FullRow(IcaoA, <<"A","A","L","1">>, TsField(t), F(20)) : t \in {T1, T2, TWide} }
      \cup { FullRow(IcaoB, <<"A","A","L","1">>, TsField(T1), F(30)) }

Batches(rows) == UNION { [1..n -> rows] : n \in 1..MaxBatch }

-----------------------------------------------------------------------------
(* the /ws/flights session: snapshot, diff and viewport helpers *)

\* Store.CurrentAll: every point under now:*
CurrentAll(n) == {Unmarshal(n[k].val) : k \in DOMAIN n}

Item(p) ==
    [icao24 |-> p.icao24, callsign |-> p.callsign, lon |-> p.lon,
     lat |-> p.lat, alt |-> p.alt, track |-> p.track, speed |-> p.speed,
     ts |-> p.ts]

ItemKey(it) ==
    IF it.icao24 # <<>> THEN it.icao24 ELSE TrimSpace(ToUpper(it.callsign))

\* every point that has a key becomes an item; no viewport is consulted
makeCurArr(pts) == {Item(p) : p \in {q \in pts : ItemKey(Item(q)) # <<>>}}

makeCur(pts) ==
    LET arr == makeCurArr(pts)
    IN  [k \in {ItemKey(it) : it \in arr} |->
            CHOOSE it \in arr : ItemKey(it) = k]

changed_IgnoresTs(a, b) ==
    \/ a.lon # b.lon \/ a.lat # b.lat \/ a.alt # b.alt
    \/ a.track # b.track \/ a.speed # b.speed
    \/ a.callsign # b.callsign

changed(a, b) ==
    \/ a.lon # b.lon \/ a.lat # b.lat \/ a.alt # b.alt
    \/ a.track # b.track \/ a.speed # b.speed \/ a.ts # b.ts
    \/ a.callsign # b.callsign

\* the upsert and delete sets of trySend
DiffUp_OneOnly(lst, cur) ==
    IF DOMAIN lst = {}
    THEN IF DOMAIN cur = {} THEN {}
         ELSE {cur[CHOOSE k \in DOMAIN cur : TRUE]}
    ELSE {cur[k] : k \in {x \in DOMAIN cur :
                             x \notin DOMAIN lst \/ changed(lst[x], cur[x])}}

DiffUp(lst, cur) ==
    IF DOMAIN lst = {} THEN {cur[k] : k \in DOMAIN cur}
    ELSE {cur[k] : k \in {x \in DOMAIN cur :
                             x \notin DOMAIN lst \/ changed(lst[x], cur[x])}}

DiffDel_None(lst, cur) == {}

DiffDel(lst, cur) ==
    IF DOMAIN lst = {} THEN {}
    ELSE {k \in DOMAIN lst : k \notin DOMAIN cur}

\* a client applying one diff to its map
ApplyDiff(m, up, dl) ==
    LET keys == ((DOMAIN m) \ dl) \cup {ItemKey(it) : it \in up}
    IN  [k \in keys |->
            IF \E it \in up : ItemKey(it) = k
            THEN CHOOSE it \in up : ItemKey(it) = k
            ELSE m[k]]

\* bbox given as its comma-separated parts, each a number or not
parseBBox_AnyOrder(parts) ==
    /\ Len(parts) = 4
    /\ \A i \in 1..4 : parts[i].k = "f"
    /\ ~(parts[1].v < -180 \/ parts[3].v > 180
           \/ parts[2].v < -90 \/ parts[4].v > 90)

parseBBox(parts) ==
    /\ Len(parts) = 4
    /\ \A i \in 1..4 : parts[i].k = "f"
    /\ ~(parts[1].v < -180 \/ parts[3].v > 180
           \/ parts[2].v < -90 \/ parts[4].v > 90)
    /\ ~(parts[3].v <= parts[1].v \/ parts[4].v <= parts[2].v)

BBoxOf(parts) == [i \in 1..4 |-> parts[i].v]
NoBBox == [i \in 1..4 |-> 0]
NoDiff == [missing |-> {}, extra |-> {}, delete |-> {}]

WsInit ==
    /\ status = "started"
    /\ seq = 0 /\ inflight = FALSE /\ bufferHigh = FALSE /\ pending = TRUE
    /\ last = EmptyMap
    /\ hasBBox = FALSE /\ bboxVals = NoBBox
    /\ ackCh = <<>> /\ updCh = 0
    /\ wire = <<>> /\ client = EmptyMap /\ readCur = EmptyMap
    /\ readBBox = NoBBox
    /\ firstDiff = NoDiff /\ firstBy = "none"
    /\ ackSeen = FALSE /\ missed = 0 /\ coalesced = FALSE /\ burst = 0
    /\ throttled = FALSE

-----------------------------------------------------------------------------
(* the rest of the process: initial state *)

\* IngestLoop has not fetched yet: the first fetchOnce runs at once
IngInit ==
    ing = [pc |-> "fetch", wakeAt |-> 0, kind |-> "none", ra |-> 0,
           poll |-> 0, delay |-> 0, touchTtl |-> 0, at |-> 0, live |-> {}]

\* no subscriber yet
BusInit == handles = [x \in {} |-> 0] /\ busOp = <<"none", 0>>

\* a cookie, present or not, and the mfr_jwt token as validateJWT sees it:
\* how many dot-separated parts, whether header and payload are non-empty,
\* whether the MAC matches, whether the payload decodes, and its exp
\* (<<0, 0>>: none)
Cookie(present, value) == [present |-> present, value |-> value]
Token(parts, filled, sigOk, payloadOk, exp) ==
    [parts |-> parts, filled |-> filled, sigOk |-> sigOk,
     payloadOk |-> payloadOk, exp |-> exp]

NoCookie == Cookie(FALSE, "")
NoToken == Token(0, FALSE, FALSE, FALSE, <<0, 0>>)

Conns == 1..MaxConns

NoHandshake ==
    [c |-> 0, jwt |-> NoCookie, tok |-> NoToken, csrfQ |-> "",
     csrfC |-> NoCookie, answer |-> 0]

\* no connection has asked for an upgrade, Run is serving
SrvInit ==
    /\ conns = [c \in Conns |-> [st |-> "idle", frames |-> <<>>]]
    /\ hs = NoHandshake
    /\ wsClients = {}
    /\ proc = [phase |-> "serving", atSignal |-> {}]

NoRequest ==
    [method |-> "", path |-> <<>>, header |-> "", csrfC |-> NoCookie,
     jwt |-> NoCookie, tok |-> NoToken]

ApiInit == req = NoRequest /\ resp = [status |-> 0, ran |-> FALSE]

\* InitAuth has resolved the secret; nothing signed, nothing validated
NoPresented == [tok |-> <<>>, at |-> 0, key |-> 0, ok |-> FALSE]

JwtInit == jwtSecret = 1 /\ issued = {} /\ presented = NoPresented

\* a frame header as ReadFrame sees it; io: the read itself failed
Frame(io, fin, mask, rsv1, opcode) ==
    [io |-> io, fin |-> fin, mask |-> mask, rsv1 |-> rsv1,
     opcode |-> opcode]

NoFrame == Frame(FALSE, FALSE, FALSE, FALSE, 0)

\* no connection has been upgraded
SessInit ==
    sess = [c \in Conns |->
              [st |-> "idle", seq |-> 0, inflight |-> FALSE,
               bufferHigh |-> FALSE, pending |-> FALSE, last |-> EmptyMap,
               rx |-> NoFrame, why |-> "none"]]

NoSent ==
    [kind |-> "none", lst |-> EmptyMap, cur |-> EmptyMap, up |-> {},
     dl |-> {}, seq0 |-> 0, seq1 |-> 0, pend1 |-> FALSE, wrote |-> FALSE]

DiffInit == sent = NoSent

BeatInit ==
    /\ wsNow = 0 /\ lastSend = 0 /\ nextTick = PingEvery
    /\ tickFrames = <<>>

\* the session loop (diff, hb, ping), the reader task (pong) and
\* BroadcastShutdown (server_shutdown)
Writers == {"loop", "reader", "shutdown"}

WireInit ==
    /\ mu = "none"
    /\ wpc = [w \in Writers |-> "idle"]
    /\ wcnt = [w \in Writers |-> 0]
    /\ wbuf = <<>> /\ sock = <<>> /\ broken = FALSE

StopInit ==
    /\ stopCh = FALSE
    /\ il = [pc |-> "start", fired |-> FALSE, n |-> 0]

NoTask ==
    [hpc |-> "idle", reader |-> "none", done |-> FALSE, net |-> FALSE,
     why |-> "none", rwhy |-> "none"]

TaskInit == task = [c \in Conns |-> NoTask]

SysInit ==
    /\ IngInit /\ BusInit /\ SrvInit /\ ApiInit /\ JwtInit /\ SessInit
    /\ DiffInit
    /\ BeatInit
    /\ WireInit
    /\ StopInit
    /\ TaskInit

-----------------------------------------------------------------------------
(* store actions *)

Store == DB(pos, now, mapcs)

StoreInit ==
    /\ clock = 0
    /\ pos = EmptyMap /\ now = EmptyMap /\ mapcs = EmptyMap
    /\ panicked = FALSE
    /\ lastOp = "open"
    /\ lastBatch = <<>>
    /\ nowWritten = {}
    /\ WsInit
    /\ SysInit

Commit(db) == /\ pos' = db.pos /\ now' = db.now /\ mapcs' = db.mapcs

\* one UpsertStates call; a panic unwinds through db.Update and kills the
\* process, with the rows before the panicking one committed or not
Upsert(states, record) ==
    /\ ~panicked
    /\ LET r == UpsertStates(Store, states, clock)
       IN  /\ \E kept \in (IF r.panic THEN BOOLEAN ELSE {TRUE}) :
                 Commit(IF kept THEN r.db ELSE Store)
           /\ panicked' = r.panic
    /\ lastOp' = "upsert"
    /\ lastBatch' = IF record THEN states ELSE <<>>
    /\ nowWritten' = {}
    /\ UNCHANGED <<clock, wsVars, sysVars>>

\* one poll of the ingester storing one aircraft's row
Ingest == \E r \in IngestRows : Upsert(<<r>>, FALSE)

Touch ==
    /\ ~panicked
    /\ \E ttl \in {0, NowTTL + 5} : Commit(TouchNow(Store, ttl, clock))
    /\ lastOp' = "touch"
    /\ lastBatch' = <<>>
    /\ nowWritten' = {}
    /\ UNCHANGED <<clock, panicked, wsVars, sysVars>>

Rebuild ==
    /\ ~panicked
    /\ LET cs == RebuildCallsigns(latest(pos))
       IN  \E win \in [cs -> PosIcaos(pos)] :
              /\ \A c \in cs : win[c] \in RebuildOwners(latest(pos), c)
              /\ Commit(RebuildNow(Store, win, clock))
    /\ lastOp' = "rebuild"
    /\ lastBatch' = <<>>
    /\ nowWritten' = RebuildWrites(Store)
    /\ UNCHANGED <<clock, panicked, wsVars, sysVars>>

\* time passes; keys whose TTL has run out are gone
Tick ==
    /\ ~panicked
    /\ clock + NowTTL <= MaxClock
    /\ clock' = clock + NowTTL
    /\ Commit(DB(Sweep(pos, clock'), Sweep(now, clock'), Sweep(mapcs, clock')))
    /\ lastOp' = "tick"
    /\ lastBatch' = <<>>
    /\ nowWritten' = {}
    /\ UNCHANGED <<panicked, wsVars, sysVars>>

StoreNext == Ingest \/ Touch \/ Rebuild \/ Tick

SpecStore == StoreInit /\ [][StoreNext]_vars

-----------------------------------------------------------------------------
(* UpsertStates on arbitrary decoded rows *)

Row(n, icao, cs, lcon, tpos, lon, lat, balt, vel, trk, galt) ==
    [n |-> n, icao |-> icao, cs |-> cs, lcon |-> lcon, tpos |-> tpos,
     lon |-> lon, lat |-> lat, balt |-> balt, vel |-> vel, trk |-> trk,
     galt |-> galt]

\* out-of-range values, to be normalised
RowClamped ==
    Row(17, <<" ","A">>, <<" ","a","a","l","1">>, TsField(T2), NoTs,
        F(200), F(-100), F(-3), F(-5), F(-90), NoNum)
\* same aircraft, no timestamp, no callsign
RowNoTs ==
    Row(17, IcaoA, <<>>, TsField(<<0, 0>>), NoTs,
        F(20), F(10), NoNum, F(200), F(450), F(1000))
RowPlain ==
    Row(17, IcaoB, <<"B","A","2">>, TsField(T1), NoTs,
        F(30), F(10), F(900), F(150), F(0), NaN)
\* six fields: below the length check
RowSix ==
    Row(6, IcaoB, <<>>, TsField(T1), NoTs,
        F(30), NoNum, NoNum, NoNum, NoNum, NoNum)
\* seven fields: passes the length check, has no st[13]
RowSeven ==
    Row(7, IcaoB, <<>>, TsField(T1), NoTs,
        F(30), F(10), NoNum, NoNum, NoNum, NoNum)
RowNoIcao ==
    Row(17, <<" ">>, <<"B","A","2">>, TsField(T1), NoTs,
        F(30), F(10), NoNum, NoNum, NoNum, NoNum)
RowNaN ==
    Row(17, IcaoB, <<"B","A","2">>, TsField(T1), NoTs,
        NaN, F(10), NoNum, NoNum, NoNum, NoNum)
RowNoLat ==
    Row(17, IcaoB, <<"B","A","2">>, TsField(T1), NoTs,
        F(30), NoNum, NoNum, NoNum, NoNum, NoNum)
RowInf ==
    Row(17, IcaoB, <<"B","A","2">>, TsField(T2), NoTs,
        PosInf, F(10), NoNum, NoNum, NoNum, NoNum)

AnyRows ==
    {RowClamped, RowNoTs, RowPlain, RowSix, RowSeven, RowNoIcao, RowNaN,
     RowNoLat, RowInf}

AnyBatches == Batches(AnyRows)

\* the store a call finds: empty, or holding one earlier ingested batch
UpsertInit ==
    /\ clock = 0
    /\ \E b \in {<<>>} \cup Batches(IngestRows) :
          LET db == UpsertStates(DB(EmptyMap, EmptyMap, EmptyMap), b, 0).db
          IN  pos = db.pos /\ now = db.now /\ mapcs = db.mapcs
    /\ panicked = FALSE
    /\ lastOp = "open"
    /\ lastBatch = <<>>
    /\ nowWritten = {}
    /\ WsInit
    /\ SysInit

UpsertAny ==
    /\ lastOp = "open"
    /\ \E b \in AnyBatches : Upsert(b, TRUE)

SpecUpsert == UpsertInit /\ [][UpsertAny]_vars

-----------------------------------------------------------------------------
(* the /ws/flights session: actions *)

Min(a, b) == IF a < b THEN a ELSE b

CanSend_IgnoresInflight(infl, high, pend) == ~(high \/ ~pend)

CanSend(infl, high, pend) == ~(infl \/ high \/ ~pend)

NextSeq_Skips(s) == s + 2

NextSeq(s) == s + 1

PendingAfterSend_Stays == TRUE

PendingAfterSend == FALSE

\* last when WriteText has returned an error
LastAfterFailedWrite_Cur(lst, cur) == cur

LastAfterFailedWrite(lst, cur) == lst

AckAccepted_UpTo(m, s) == m.seq <= s

AckAccepted(m, s) == m.seq = s

BufferHighOf_Never(b) == FALSE

BufferHighOf_AtLimit(b) == b >= BufferLimit

BufferHighOf(b) == b > BufferLimit

\* bookkeeping of a send attempt that wrote the diff (up, dl) built from cur
Written(arr, cur, up, dl, by) ==
    /\ wire' = Append(wire, NextSeq(seq))
    /\ client' = ApplyDiff(client, up, dl)
    /\ readCur' = cur
    /\ readBBox' = IF hasBBox THEN bboxVals ELSE NoBBox
    /\ firstDiff' = IF wire = <<>>
                    THEN [missing |-> arr \ up, extra |-> up \ arr,
                          delete |-> dl]
                    ELSE firstDiff
    /\ firstBy' = IF wire = <<>> THEN by ELSE "none"
    /\ coalesced' = (missed > 1)
    /\ missed' = 0
    /\ burst' = (IF by = "update" THEN 0 ELSE burst) + 1
    /\ ackSeen' = FALSE

\* bookkeeping of a send attempt that wrote nothing
NotWritten(by, blocked) ==
    /\ UNCHANGED <<wire, client, readCur, readBBox, firstDiff, firstBy,
                   coalesced, ackSeen>>
    /\ missed' = IF by = "update" /\ blocked
                 THEN Min(missed + 1, MaxMissed) ELSE missed
    /\ burst' = IF by = "update" THEN 0 ELSE burst

\* trySend entered with the flags as the caller left them; st is the status
\* the caller continues in, ok whether the wire write succeeds
trySend(infl, high, pend, st, ok, by) ==
    LET pts == CurrentAll(now)
        arr == makeCurArr(pts)
        cur == makeCur(pts)
        up == DiffUp(last, cur)
        dl == DiffDel(last, cur)
    IN  IF ~CanSend(infl, high, pend)
        THEN /\ inflight' = infl /\ pending' = pend /\ status' = st
             /\ UNCHANGED <<seq, last>>
             /\ NotWritten(by, infl \/ high)
        ELSE IF up = {} /\ dl = {}
        THEN /\ inflight' = infl /\ pending' = FALSE /\ status' = st
             /\ last' = cur
             /\ UNCHANGED seq
             /\ NotWritten(by, FALSE)
        ELSE IF ~ok
        THEN /\ seq' = NextSeq(seq) /\ status' = "failed"
             /\ inflight' = infl /\ pending' = pend
             /\ last' = LastAfterFailedWrite(last, cur)
             /\ NotWritten(by, FALSE)
        ELSE /\ seq' = NextSeq(seq) /\ status' = st
             /\ inflight' = TRUE /\ last' = cur
             /\ pending' = PendingAfterSend
             /\ Written(arr, cur, up, dl, by)

\* the handler has returned: its variables and channels are gone
Return ==
    /\ status' = "closed"
    /\ seq' = 0 /\ inflight' = FALSE /\ bufferHigh' = FALSE
    /\ pending' = FALSE /\ last' = EmptyMap
    /\ hasBBox' = FALSE /\ bboxVals' = NoBBox
    /\ ackCh' = <<>> /\ updCh' = 0
    /\ wire' = <<>> /\ client' = EmptyMap /\ readCur' = EmptyMap
    /\ readBBox' = NoBBox
    /\ firstDiff' = NoDiff /\ firstBy' = "none"
    /\ ackSeen' = FALSE /\ missed' = 0 /\ coalesced' = FALSE /\ burst' = 0
    /\ throttled' = FALSE
    /\ UNCHANGED <<storeVars, sysVars>>

Serving == status = "open" /\ seq < MaxSeq
Reading == status \in {"started", "open"} /\ seq < MaxSeq

\* the initial send, before the select loop
Connect ==
    /\ status = "started"
    /\ \E ok \in BOOLEAN :
          trySend(inflight, bufferHigh, pending, "open", ok, "connect")
    /\ UNCHANGED <<bufferHigh, viewVars, ackCh, updCh, throttled, storeVars, sysVars>>

\* case m := <-ackCh
HandleAck ==
    /\ Serving /\ ackCh # <<>>
    /\ ackCh' = Tail(ackCh)
    /\ LET m == Head(ackCh)
       IN  IF AckAccepted(m, seq)
           THEN /\ bufferHigh' = BufferHighOf(m.buffered)
                /\ throttled' = (m.buffered > BufferLimit)
                /\ IF ~BufferHighOf(m.buffered)
                   THEN \E ok \in BOOLEAN :
                          trySend(FALSE, FALSE, pending, "open", ok, "ack")
                   ELSE /\ inflight' = FALSE
                        /\ missed' = 0
                        /\ UNCHANGED <<status, seq, pending, last, wire,
                                       client, readCur, readBBox, firstDiff,
                                       firstBy, coalesced, ackSeen, burst>>
           ELSE UNCHANGED <<status, sendVars, bufferHigh, histVars>>
    /\ UNCHANGED <<viewVars, updCh, storeVars, sysVars>>

\* case <-updates
HandleUpdate ==
    /\ Serving /\ updCh > 0
    /\ updCh' = updCh - 1
    /\ \E ok \in BOOLEAN :
          trySend(inflight, bufferHigh, TRUE, "open", ok, "update")
    /\ UNCHANGED <<bufferHigh, viewVars, ackCh, throttled, storeVars, sysVars>>

\* case <-ping.C: a heartbeat when nothing was sent for 25 s, else a ping;
\* only a heartbeat whose write fails ends the session
PingTick ==
    /\ Serving
    /\ \E hbFails \in BOOLEAN :
          IF hbFails THEN Return ELSE UNCHANGED vars

\* case <-r.Context().Done(), case <-done, and the return after an error
Close ==
    /\ status \in {"started", "open", "failed"}
    /\ Return

\* the reader on a text frame of type "ack"
ReaderAck(s, b) ==
    /\ Reading /\ Len(ackCh) < MaxQueued
    /\ ackCh' = IF s > 0 /\ Len(ackCh) < AckCap
                THEN Append(ackCh, [seq |-> s, buffered |-> b])
                ELSE ackCh
    /\ ackSeen' = (ackSeen \/ (s > 0 /\ s = seq))
    /\ UNCHANGED <<status, sendVars, bufferHigh, viewVars, updCh, wire,
                   client, readCur, readBBox, firstDiff, firstBy, missed,
                   coalesced, burst, throttled, storeVars, sysVars>>

\* the client acks the current diff, reporting a buffer at or over the
\* limit, or repeats its ack of the diff before with a buffer over the limit
ClientAck ==
    \/ \E b \in {BufferLimit, BufferLimit + 1} : ReaderAck(seq, b)
    \/ seq > 0 /\ ReaderAck(seq - 1, BufferLimit + 1)

\* the reader on a text frame of type "viewport"
ReaderViewport(parts) ==
    /\ Reading
    /\ IF parseBBox(parts)
       THEN hasBBox' = TRUE /\ bboxVals' = BBoxOf(parts)
       ELSE UNCHANGED <<hasBBox, bboxVals>>
    /\ UNCHANGED <<status, sendVars, bufferHigh, ackCh, updCh, histVars,
                   storeVars, sysVars>>

\* a viewport around aircraft b only, and one with maxLon < minLon
BBoxB == <<F(25), F(0), F(40), F(20)>>
BBoxBad == <<F(40), F(0), F(25), F(20)>>

ClientViewport == \E parts \in {BBoxB, BBoxBad} : ReaderViewport(parts)

\* UpdateBus.Publish on the session's handle: dropped when the buffer is full
Publish ==
    /\ Reading
    /\ updCh' = IF updCh < UpdCap THEN updCh + 1 ELSE updCh
    /\ UNCHANGED <<status, sendVars, bufferHigh, viewVars, ackCh, histVars,
                   storeVars, sysVars>>

WsRows ==
    { FullRow(IcaoA, <<"A","A","L","1">>, TsField(T1), F(20)),
      FullRow(IcaoA, <<"A","A","L","1">>, TsField(T2), F(20)),
      FullRow(IcaoB, <<"B","A","2">>, TsField(T1), F(30)) }

\* the now:* side of a committed UpsertStates row, as CurrentAll sees it
NowUpsert ==
    /\ Reading
    /\ \E r \in WsRows : now' = WriteRow(Store, r, clock).now
    /\ UNCHANGED <<clock, pos, mapcs, panicked, lastOp, lastBatch,
                   nowWritten, wsVars, sysVars>>

\* a now key reaching its TTL
NowExpire ==
    /\ Reading
    /\ \E k \in DOMAIN now : now' = [x \in (DOMAIN now) \ {k} |-> now[x]]
    /\ UNCHANGED <<clock, pos, mapcs, panicked, lastOp, lastBatch,
                   nowWritten, wsVars, sysVars>>

WsNext ==
    \/ Connect \/ HandleAck \/ HandleUpdate \/ PingTick \/ Close
    \/ ClientAck \/ ClientViewport \/ Publish \/ NowUpsert \/ NowExpire

SpecWS == StoreInit /\ [][WsNext]_vars

-----------------------------------------------------------------------------
(* properties of the store *)

\* the live pos key of icao whose stored point has the numerically greatest ts
NewestPos(p, icao) ==
    CHOOSE k \in DOMAIN p :
        /\ k[1] = icao
        /\ \A o \in DOMAIN p :
              o[1] = icao => ~TsLess(Unmarshal(p[k].val).ts,
                                     Unmarshal(p[o].val).ts)

\* C7: at every instant, for every icao with a now key, the now value is the
\* value of the unexpired pos key of that icao with the greatest ts.
C7_NowIsNewestPos ==
    \A icao \in DOMAIN now :
        /\ icao \in PosIcaos(pos)
        /\ now[icao].val = pos[NewestPos(pos, icao)].val

\* rows the contract speaks of: non-empty icao, finite lon and lat
RowFinite(st) ==
    /\ normalizeICAO(st.icao) # <<>>
    /\ st.lon.k = "f" /\ st.lat.k = "f"

InRanges(p) ==
    /\ p.lon >= -180 /\ p.lon <= 180
    /\ p.lat >= -90 /\ p.lat <= 90
    /\ p.track >= 0 /\ p.track < 360
    /\ p.speed >= 0 /\ p.alt >= 0

\* C8: right after an UpsertStates call, every row of the batch with a
\* non-empty icao and finite lon/lat has its pos key and its now key, both
\* decoding to the row's normalised point, which lies in the value ranges.
C8_RowsStoredNormalised ==
    (lastOp = "upsert" /\ lastBatch # <<>>) =>
        \A i \in DOMAIN lastBatch :
            RowFinite(lastBatch[i]) =>
                LET p == RowPoint(lastBatch[i], clock)
                    k == keyPos(p.icao24, p.ts)
                IN  /\ InRanges(p)
                    /\ k \in DOMAIN pos /\ Unmarshal(pos[k].val) = p
                    /\ p.icao24 \in DOMAIN now
                    /\ Unmarshal(now[p.icao24].val) = p

\* C9: an UpsertStates call never panics whatever the rows' lengths, and
\* every row of the batch that passes validation has its pos key afterwards.
C9_BadRowsSkipped ==
    (lastOp = "upsert" /\ lastBatch # <<>>) =>
        /\ ~panicked
        /\ \A i \in DOMAIN lastBatch :
              RowValid(lastBatch[i]) =>
                  LET p == RowPoint(lastBatch[i], clock)
                  IN  keyPos(p.icao24, p.ts) \in DOMAIN pos

\* C10: right after RebuildNow on a non-empty history, every icao with a pos
\* key has a now entry holding the pos value of greatest ts, and no now entry
\* was written for any other icao.
C10_RebuildIsArgmax ==
    (lastOp = "rebuild" /\ pos # EmptyMap) =>
        /\ \A icao \in PosIcaos(pos) :
              /\ icao \in DOMAIN now
              /\ now[icao].val = pos[NewestPos(pos, icao)].val
        /\ nowWritten \subseteq PosIcaos(pos)

-----------------------------------------------------------------------------
(* properties of the /ws/flights session *)

C2_SeqConsecutive == wire = [i \in 1..Len(wire) |-> i]

\* two diffs written, the second after send attempts that were skipped
C2_Witness == Len(wire) >= 2 /\ coalesced /\ wire[Len(wire)] = Len(wire)

InBBox(it, box) ==
    /\ it.lon >= box[1] /\ it.lon <= box[3]
    /\ it.lat >= box[2] /\ it.lat <= box[4]

Filtered(m, box) ==
    IF box = NoBBox THEN m
    ELSE [k \in {x \in DOMAIN m : InBBox(m[x], box)} |-> m[k]]

C4_FirstDiffIsSnapshot == wire # <<>> => firstDiff = NoDiff

\* the store was empty at connect and the first diff followed a notification
C4_Witness == firstBy = "update" /\ wire = <<1>> /\ client # EmptyMap

\* C5: from the acceptance of an ack reporting buffered > 1_000_000 until the
\* acceptance of an ack reporting at most that, no step writes a diff.
C5_NoDiffWhileBufferHigh == [][throttled' => wire' = wire]_vars

\* two notifications handled since the high ack was accepted, a send pending
C5_Witness ==
    /\ status = "open" /\ throttled /\ bufferHigh /\ pending
    /\ missed >= 2 /\ wire # <<>>

\* C6: at most one diff is written between two handled notifications, and a
\* step that writes a diff leaves in last the store's view at that step.
C6_OneDiffFromCurrentStore ==
    [][Len(wire') > Len(wire) =>
          /\ burst' <= 1
          /\ last' = makeCur(CurrentAll(now))]_vars

\* one diff written after several notifications were handled while blocked
C6_Witness == coalesced /\ burst = 1 /\ inflight /\ ~pending

-----------------------------------------------------------------------------
(* Store.LatestByCallsign and the callsign index *)

Nil == [nil |-> TRUE]

\* the icao a callsign resolves to: map:cs:{callsign}, else the mapping of
\* its alternate form; <<>> when neither is there
ResolveIcao(db, callsign) ==
    LET alt == convertCallsignAlternate(callsign)
    IN  IF callsign \in DOMAIN db.mapcs THEN db.mapcs[callsign].val
        ELSE IF alt # <<>> /\ alt \in DOMAIN db.mapcs THEN db.mapcs[alt].val
        ELSE <<>>

\* (point, err): err when no mapping resolves, a nil point when the mapping
\* dangles
LatestByCallsign(db, raw) ==
    LET icao == ResolveIcao(db, normalizeCallsign(raw))
    IN  IF icao = <<>> THEN [point |-> Nil, err |-> TRUE]
        ELSE IF icao \in DOMAIN db.now
             THEN [point |-> Unmarshal(db.now[icao].val), err |-> FALSE]
        ELSE [point |-> Nil, err |-> FALSE]

\* callsigns of two airlines of the table, each in both code forms: AA/AAL
\* (letters only) and U2/EZY (the IATA code holds a digit)
CsAAL == <<"A","A","L","1">>
CsAA == <<"A","A","1">>
CsEZY == <<"E","Z","Y","1">>
CsU2 == <<"U","2","1">>
Callsigns == {CsAAL, CsAA, CsEZY, CsU2}

CsRows ==
    { FullRow(i, cs, TsField(T1), IF i = IcaoA THEN F(20) ELSE F(30)) :
        i \in {IcaoA, IcaoB}, cs \in Callsigns }

IngestCs == \E r \in CsRows : Upsert(<<r>>, FALSE)

CsNext == IngestCs \/ Tick

SpecCallsign == StoreInit /\ [][CsNext]_vars

\* C11: whenever the mapping of a callsign and the mapping of its alternate
\* form both resolve, LatestByCallsign returns the same point for the two
C11_AlternateSameLatest ==
    \A cs \in Callsigns :
        LET alt == convertCallsignAlternate(cs)
        IN  (alt # <<>> /\ cs \in DOMAIN mapcs /\ alt \in DOMAIN mapcs)
                => LatestByCallsign(Store, cs) = LatestByCallsign(Store, alt)

-----------------------------------------------------------------------------
(* Store.IsLandedWithin and Store.CurrentInBBox *)

\* the landed window CurrentInBBox asks for (seconds), the most points one
\* IsLandedWithin scan reads, and the displacement (metres) and altitude
\* change (metres) below which an aircraft counts as stationary
LandedWindow == 600
ScanLimit == 10
NearMeters == 500
AltTol == 10

Abs(x) == IF x < 0 THEN 0 - x ELSE x

\* the pos keys of one aircraft, last key first (tx.DescendKeys)
RECURSIVE DescendKeys(_)
DescendKeys(ks) ==
    IF ks = {} THEN <<>>
    ELSE LET top == CHOOSE k \in ks :
                        \A o \in ks : o # k => LexLess(o[2], k[2])
         IN  <<top>> \o DescendKeys(ks \ {top})

\* the index at which the scan stops: the first point older than the cutoff
\* or the ScanLimit-th point, else the last point
RECURSIVE ScanStop(_, _, _, _)
ScanStop(p, keys, i, nowTs) ==
    IF i >= Len(keys) THEN Len(keys)
    ELSE IF \/ TsLess(TsAdd(Unmarshal(p[keys[i]].val).ts, LandedWindow), nowTs)
            \/ i >= ScanLimit
         THEN i
    ELSE ScanStop(p, keys, i + 1, nowTs)

\* haversineMeters(...) < NearMeters on whole-degree coordinates: one degree
\* is more than 100 km except along a parallel at a pole, where every
\* longitude is the same place; longitudes 180 and -180 coincide
distNear(lat1, lon1, lat2, lon2) ==
    /\ lat1 = lat2
    /\ \/ lon1 = lon2
       \/ Abs(lat1) = 90
       \/ Abs(lon1 - lon2) = 360

\* newest.Speed <= 1.5
speedNearZero(v) == 2 * v <= 3

IsLandedWithin(db, icao, clk) ==
    LET keys == DescendKeys({k \in DOMAIN db.pos : k[1] = icao})
        stop == ScanStop(db.pos, keys, 1, NowUnix(clk))
        newest == Unmarshal(db.pos[keys[1]].val)
        oldest == Unmarshal(db.pos[keys[stop]].val)
    IN  IF keys = <<>> THEN FALSE
        \* span < window / 2: not enough history to decide
        ELSE IF TsLess(newest.ts, TsAdd(oldest.ts, LandedWindow \div 2))
             THEN FALSE
        ELSE /\ speedNearZero(newest.speed)
             /\ distNear(oldest.lat, oldest.lon, newest.lat, newest.lon)
             /\ Abs(newest.alt - oldest.alt) < AltTol

InBox_Strict(p, box) ==
    p.lon > box[1] /\ p.lon < box[3] /\ p.lat > box[2] /\ p.lat < box[4]

\* box = <<minLon, minLat, maxLon, maxLat>>
InBox(p, box) ==
    p.lon >= box[1] /\ p.lon <= box[3] /\ p.lat >= box[2] /\ p.lat <= box[4]

\* the points of the result; pts is the scan of now:*, then the landed
\* filter runs over pts
CurrentInBBox(db, box, clk) ==
    LET pts == {p \in {Unmarshal(db.now[k].val) : k \in DOMAIN db.now} :
                   InBox(p, box)}
    IN  {p \in pts : ~IsLandedWithin(db, p.icao24, clk)}

T3 == <<1, 700000300>>
TOld == <<1, 699999100>>

\* aircraft a parked or rolling at lon 20, aircraft b flying at lon 30 or on
\* the eastern edge of the boxes
BoxRows ==
    { Row(17, IcaoA, CsAAL, TsField(t), NoTs, F(20), F(10), NoNum, F(v),
          F(0), F(0)) : t \in {TOld, T1, T3}, v \in {0, 200} }
      \cup { FullRow(IcaoB, CsAA, TsField(T1), F(l)) : l \in {30, 40} }

QueryBoxes == { <<0, 0, 40, 20>>, <<25, 10, 40, 20>> }

IngestBox == \E r \in BoxRows : Upsert(<<r>>, FALSE)

BoxNext == IngestBox \/ Tick

SpecBBox == StoreInit /\ [][BoxNext]_vars

\* C12: CurrentInBBox returns exactly the current points inside the box,
\* edges included, whose aircraft IsLandedWithin(icao, 10 min) does not
\* report as landed
C12_BBoxExactNotLanded ==
    \A box \in QueryBoxes :
        CurrentInBBox(Store, box, clock) =
            { p \in CurrentAll(now) :
                /\ box[1] <= p.lon /\ p.lon <= box[3]
                /\ box[2] <= p.lat /\ p.lat <= box[4]
                /\ ~IsLandedWithin(Store, p.icao24, clock) }

\* a landed aircraft inside the box is left out while an aircraft on the
\* edge of the box is returned
C12_Witness ==
    LET out == CurrentInBBox(Store, <<0, 0, 40, 20>>, clock)
    IN  /\ IcaoA \in DOMAIN now /\ IsLandedWithin(Store, IcaoA, clock)
        /\ \A p \in out : p.icao24 # IcaoA
        /\ \E p \in out : p.icao24 = IcaoB /\ p.lon = 40

-----------------------------------------------------------------------------
(* backend.IngestLoop *)

\* seconds: the Retry-After assumed when the header gives none, the poll
\* interval assumed when none is configured, the margin added to the ttl
\* handed to TouchNow
DefaultRetryAfter == 30
DefaultPoll == 10
TouchBuf == 5

\* the step of the clock while the ingester waits: every delay is a multiple
ClockStep == TouchBuf

Max(a, b) == IF a > b THEN a ELSE b

\* RateLimitError.RetryAfter for a Retry-After header parsed to h seconds
\* (0: absent or unparsable)
RetryAfterOf(h) == IF h <= 0 THEN DefaultRetryAfter ELSE h

\* GetPollInterval() with the fallback each use applies
PollOf(d) == IF d <= 0 THEN DefaultPoll ELSE d

Backoff_RetryOnly(retryAfter, poll) == retryAfter

\* the sleep after a rate-limit answer
Backoff(retryAfter, poll) ==
    IF retryAfter < PollOf(poll) THEN PollOf(poll) ELSE retryAfter

TouchTtl_NoMargin(delay) == delay

\* the ttl handed to TouchNow before sleeping delay
TouchTtl(delay) == delay + TouchBuf

\* what the upstream can answer and what is configured
RetryHeaders == {0, 5, 45}
PollValues == {10, 20}

Due == ing.pc = "fetch" \/ (ing.pc = "wait" /\ clock >= ing.wakeAt)

Slept(kind, h, poll, delay, ttl) ==
    ing' = [pc |-> "wait", wakeAt |-> clock + delay, kind |-> kind,
            ra |-> h, poll |-> poll, delay |-> delay, touchTtl |-> ttl,
            at |-> clock, live |-> DOMAIN now]

\* fetchOnce, upstream answers 429 or 503
FetchRateLimited ==
    /\ ~panicked /\ Due
    /\ \E h \in RetryHeaders, poll \in PollValues :
          LET delay == Backoff(RetryAfterOf(h), poll)
          IN  /\ Commit(TouchNow(Store, TouchTtl(delay), clock))
              /\ Slept("rate", h, poll, delay, TouchTtl(delay))
    /\ lastOp' = "touch" /\ lastBatch' = <<>> /\ nowWritten' = {}
    /\ UNCHANGED <<clock, panicked, wsVars, jwtVars, sessVars, diffVars, beatVars, wireVars, stopVars, taskVars, busVars, srvVars, apiVars>>

\* fetchOnce, any other error
FetchFailed ==
    /\ ~panicked /\ Due
    /\ \E poll \in PollValues :
          /\ Commit(TouchNow(Store, TouchTtl(PollOf(poll)), clock))
          /\ Slept("err", 0, poll, PollOf(poll), TouchTtl(PollOf(poll)))
    /\ lastOp' = "touch" /\ lastBatch' = <<>> /\ nowWritten' = {}
    /\ UNCHANGED <<clock, panicked, wsVars, jwtVars, sessVars, diffVars, beatVars, wireVars, stopVars, taskVars, busVars, srvVars, apiVars>>

\* fetchOnce, upstream answers with states: UpsertStates, nothing else
FetchOk ==
    /\ ~panicked /\ Due
    /\ \E r \in WsRows, poll \in PollValues :
          /\ Commit(UpsertStates(Store, <<r>>, clock).db)
          /\ Slept("ok", 0, poll, PollOf(poll), 0)
    /\ lastOp' = "upsert" /\ lastBatch' = <<>> /\ nowWritten' = {}
    /\ UNCHANGED <<clock, panicked, wsVars, jwtVars, sessVars, diffVars, beatVars, wireVars, stopVars, taskVars, busVars, srvVars, apiVars>>

\* time passes while the timer runs; it fires when due
IngTick ==
    /\ ~panicked
    /\ ing.pc = "wait" /\ clock < ing.wakeAt
    /\ clock + ClockStep <= MaxClock
    /\ clock' = clock + ClockStep
    /\ Commit(DB(Sweep(pos, clock'), Sweep(now, clock'), Sweep(mapcs, clock')))
    /\ lastOp' = "tick" /\ lastBatch' = <<>> /\ nowWritten' = {}
    /\ UNCHANGED <<panicked, wsVars, sysVars>>

\* the stop channel is closed
IngStop ==
    /\ ing.pc # "stopped"
    /\ ing' = [ing EXCEPT !.pc = "stopped"]
    /\ UNCHANGED <<storeVars, wsVars, jwtVars, sessVars, diffVars, beatVars, wireVars, stopVars, taskVars, busVars, srvVars, apiVars>>

IngNext == FetchRateLimited \/ FetchFailed \/ FetchOk \/ IngTick \/ IngStop

SpecIngest == StoreInit /\ [][IngNext]_vars

\* C13: after a rate-limit answer the next fetch starts no earlier than
\* max(Retry-After, pollInterval) after the answer was handled, and TouchNow
\* was called with that backoff plus 5 s before the wait
C13_BackoffRespected ==
    [][(ing.kind = "rate" /\ ing'.at # ing.at)
          => /\ clock >= ing.at + Max(RetryAfterOf(ing.ra), ing.poll)
             /\ ing.touchTtl = Max(RetryAfterOf(ing.ra), ing.poll) + TouchBuf
      ]_vars

\* a fetch starts right when a backoff longer than the poll interval ends
C13_Witness ==
    /\ ing.kind = "rate" /\ ing.pc = "wait" /\ ing.ra = 45
    /\ clock = ing.wakeAt /\ ing.live # {}
    /\ \A k \in DOMAIN now : now[k].exp = ing.at + 50

\* C14: while the ingester waits after a rate-limit answer or another fetch
\* error, every now key that was live when the error was handled is still
\* live, up to the moment the next fetch begins
C14_NowSurvivesBackoff ==
    (ing.pc = "wait" /\ ing.kind \in {"rate", "err"})
        => ing.live \subseteq DOMAIN now

\* the wait after an error is over and a now key last upserted more than
\* nowTTL ago is still there
C14_Witness ==
    /\ ing.pc = "wait" /\ ing.kind \in {"rate", "err"} /\ clock = ing.wakeAt
    /\ \E k \in ing.live :
          /\ k \in DOMAIN now
          /\ \A pk \in DOMAIN pos :
                pk[1] = k => pos[pk].exp - Retention + NowTTL <= clock

\* a step in which fetchOnce returned after a successful fetch
FetchedOk == ing' # ing /\ ing'.pc = "wait" /\ ing'.kind = "ok"

\* C15: every successful fetch commits its batch and then publishes, so the
\* subscribed session holds a notification once the tick is done
C15_PublishAfterUpsert ==
    [][FetchedOk => updCh' > 0]_vars

-----------------------------------------------------------------------------
(* the UpdateBus: Subscribe, Publish, the subscriber's receive *)

Subs == 1..MaxSubs

TrySend_Drops(h) == h

\* a non-blocking send to a handle of capacity UpdCap holding h
\* notifications: dropped when the buffer is full
TrySend(h) == IF h < UpdCap THEN h + 1 ELSE h

BusSubscribe ==
    \E s \in Subs \ DOMAIN handles :
        /\ handles' = (s :> 0) @@ handles
        /\ busOp' = <<"subscribe", s>>
        /\ UNCHANGED <<storeVars, wsVars, jwtVars, sessVars, diffVars, beatVars, wireVars, stopVars, taskVars, ingVars, srvVars, apiVars>>

\* the unsubscribe function: the handle leaves the registry
BusUnsubscribe ==
    \E s \in DOMAIN handles :
        /\ handles' = [x \in DOMAIN handles \ {s} |-> handles[x]]
        /\ busOp' = <<"unsubscribe", s>>
        /\ UNCHANGED <<storeVars, wsVars, jwtVars, sessVars, diffVars, beatVars, wireVars, stopVars, taskVars, ingVars, srvVars, apiVars>>

\* Publish: one non-blocking send per subscriber
BusPublish ==
    /\ handles' = [s \in DOMAIN handles |-> TrySend(handles[s])]
    /\ busOp' = <<"publish", 0>>
    /\ UNCHANGED <<storeVars, wsVars, jwtVars, sessVars, diffVars, beatVars, wireVars, stopVars, taskVars, ingVars, srvVars, apiVars>>

\* a subscriber takes a notification from its handle; one that has stopped
\* draining never does
BusReceive ==
    \E s \in DOMAIN handles :
        /\ handles[s] > 0
        /\ handles' = [handles EXCEPT ![s] = @ - 1]
        /\ busOp' = <<"receive", s>>
        /\ UNCHANGED <<storeVars, wsVars, jwtVars, sessVars, diffVars, beatVars, wireVars, stopVars, taskVars, ingVars, srvVars, apiVars>>

BusNext == BusSubscribe \/ BusUnsubscribe \/ BusPublish \/ BusReceive

SpecBus == StoreInit /\ [][BusNext]_vars

\* C16: Publish can always run to completion whatever the subscribers do, a
\* handle never holds more than one notification, and a Publish leaves a
\* notification in every handle that was empty
C16_PublishNeverBlocks ==
    /\ [](ENABLED BusPublish)
    /\ [](\A s \in DOMAIN handles : handles[s] <= 1)
    /\ [][busOp' = <<"publish", 0>>
            => \A s \in DOMAIN handles : handles[s] = 0 => handles'[s] = 1]_vars

\* a Publish ran while one handle was full and another was empty: both now
\* hold one notification
C16_Witness ==
    /\ busOp = <<"publish", 0>>
    /\ Cardinality(DOMAIN handles) >= 2
    /\ \A s \in DOMAIN handles : handles[s] = 1

-----------------------------------------------------------------------------
(* security: the auth and csrf cookies *)

validateJWT(tok, clk) ==
    /\ tok.parts = 3 /\ tok.filled
    /\ tok.sigOk
    /\ tok.payloadOk
    /\ ~(TsPositive(tok.exp) /\ TsLess(tok.exp, NowUnix(clk)))

ValidateJWTFromRequest(jwt, tok, clk) ==
    jwt.present /\ jwt.value # "" /\ validateJWT(tok, clk)

GetCSRFFromRequest(ck) == IF ck.present THEN ck.value ELSE ""

\* the mfr_jwt cookie of a request: absent, empty, or a token that has two
\* parts, a wrong MAC, a payload that does not decode, an exp in the past,
\* an exp in the future, or no exp
ExpPast == TOld
ExpFuture == TWide

JwtCases ==
    { <<NoCookie, NoToken>>, <<Cookie(TRUE, ""), NoToken>> }
      \cup { <<Cookie(TRUE, "tok"), t>> :
               t \in { Token(2, TRUE, TRUE, TRUE, ExpFuture),
                       Token(3, TRUE, FALSE, TRUE, ExpFuture),
                       Token(3, TRUE, TRUE, FALSE, <<0, 0>>),
                       Token(3, TRUE, TRUE, TRUE, ExpPast),
                       Token(3, TRUE, TRUE, TRUE, ExpFuture),
                       Token(3, TRUE, TRUE, TRUE, <<0, 0>>) } }

CsrfValues == {"", "t1", "t2"}
CsrfCookies == {NoCookie, Cookie(TRUE, ""), Cookie(TRUE, "t1")}

-----------------------------------------------------------------------------
(* FlightsWSHandler: the handshake, the registry; app.Run: shutdown *)

CsrfMatches_AllowsEmpty(csrfQ, csrfC) == csrfQ = csrfC

\* the csrf query parameter against the csrf cookie
CsrfMatches(csrfQ, csrfC) == ~(csrfQ = "" \/ csrfQ # csrfC)

Answered(c, j, q, ck, answer) ==
    hs' = [c |-> c, jwt |-> j[1], tok |-> j[2], csrfQ |-> q, csrfC |-> ck,
           answer |-> answer]

\* GET /ws/flights on connection c, up to registerWS and UpdatesSubscribe
Handshake ==
    /\ proc.phase \in {"serving", "signalled"}
    /\ \E c \in Conns, j \in JwtCases, q \in CsrfValues, ck \in CsrfCookies,
          upgraded \in BOOLEAN :
          /\ conns[c].st = "idle"
          /\ IF ~ValidateJWTFromRequest(j[1], j[2], clock)
             THEN /\ Answered(c, j, q, ck, 401)
                  /\ conns' = [conns EXCEPT ![c].st = "rejected"]
                  /\ UNCHANGED <<wsClients, handles>>
             ELSE IF ~CsrfMatches(q, GetCSRFFromRequest(ck))
             THEN /\ Answered(c, j, q, ck, 403)
                  /\ conns' = [conns EXCEPT ![c].st = "rejected"]
                  /\ UNCHANGED <<wsClients, handles>>
             ELSE IF ~upgraded
             \* upgradeToWebSocket fails: the handler returns having
             \* written nothing, which net/http sends as an empty 200
             THEN /\ Answered(c, j, q, ck, 200)
                  /\ conns' = [conns EXCEPT ![c].st = "failed"]
                  /\ UNCHANGED <<wsClients, handles>>
             ELSE /\ Answered(c, j, q, ck, 101)
                  /\ conns' = [conns EXCEPT ![c].st = "open"]
                  /\ wsClients' = wsClients \cup {c}
                  /\ handles' = (c :> 0) @@ handles
    /\ UNCHANGED <<storeVars, wsVars, jwtVars, sessVars, diffVars, beatVars, wireVars, stopVars, taskVars, ingVars, busOp, proc, apiVars>>

\* the session writes its snapshot
WsWrite ==
    \E c \in Conns :
        /\ conns[c].st = "open" /\ conns[c].frames = <<>>
        /\ conns' = [conns EXCEPT ![c].frames = Append(@, "diff")]
        /\ UNCHANGED <<storeVars, wsVars, jwtVars, sessVars, diffVars, beatVars, wireVars, stopVars, taskVars, ingVars, busVars, hs, wsClients,
                       proc, apiVars>>

\* the handler returns: unsubscribe, unregisterWS, close
WsReturn ==
    \E c \in Conns :
        /\ conns[c].st = "open"
        /\ conns' = [conns EXCEPT ![c].st = "closed"]
        /\ wsClients' = wsClients \ {c}
        /\ handles' = [x \in DOMAIN handles \ {c} |-> handles[x]]
        /\ UNCHANGED <<storeVars, wsVars, jwtVars, sessVars, diffVars, beatVars, wireVars, stopVars, taskVars, ingVars, busOp, hs, proc, apiVars>>

\* BroadcastShutdown: one server_shutdown frame to every registered
\* connection.  Nothing under src/ calls it.
BroadcastShutdown(cs, registry) ==
    [c \in DOMAIN cs |->
        IF c \in registry
        THEN [cs[c] EXCEPT !.frames = Append(@, "server_shutdown")]
        ELSE cs[c]]

\* Run: <-ctx.Done()
Signal ==
    /\ proc.phase = "serving"
    /\ proc' = [phase |-> "signalled", atSignal |-> wsClients]
    /\ UNCHANGED <<storeVars, wsVars, jwtVars, sessVars, diffVars, beatVars, wireVars, stopVars, taskVars, ingVars, busVars, conns, hs, wsClients,
                   apiVars>>

\* Run: srv.Shutdown closes the listener and drains; hijacked connections
\* are not its concern
Drain ==
    /\ proc.phase = "signalled"
    /\ proc' = [proc EXCEPT !.phase = "draining"]
    /\ UNCHANGED <<storeVars, wsVars, jwtVars, sessVars, diffVars, beatVars, wireVars, stopVars, taskVars, ingVars, busVars, conns, hs, wsClients,
                   apiVars>>

\* Run: close(stop)
StopIngest ==
    /\ proc.phase = "draining"
    /\ proc' = [proc EXCEPT !.phase = "stopping"]
    /\ ing' = [ing EXCEPT !.pc = "stopped"]
    /\ UNCHANGED <<storeVars, wsVars, jwtVars, sessVars, diffVars, beatVars, wireVars, stopVars, taskVars, busVars, conns, hs, wsClients, apiVars>>

\* Run: storage.Get().Close()
StoreClose ==
    /\ proc.phase = "stopping"
    /\ proc' = [proc EXCEPT !.phase = "closed"]
    /\ lastOp' = "close"
    /\ UNCHANGED <<clock, pos, now, mapcs, panicked, lastBatch, nowWritten,
                   wsVars, jwtVars, sessVars, diffVars, beatVars, wireVars, stopVars, taskVars, ingVars, busVars, conns, hs, wsClients, apiVars>>

SrvNext ==
    \/ Handshake \/ WsWrite \/ WsReturn
    \/ Signal \/ Drain \/ StopIngest \/ StoreClose

SpecServer == StoreInit /\ [][SrvNext]_vars

ShutdownFrames(c) ==
    Cardinality({i \in 1..Len(conns[c].frames) :
                    conns[c].frames[i] = "server_shutdown"})

\* C17: once the listener drains, every session that was registered at the
\* signal has been sent exactly one server_shutdown message
C17_ShutdownBroadcastFirst ==
    proc.phase \in {"draining", "stopping", "closed"}
        => \A c \in proc.atSignal : ShutdownFrames(c) = 1

\* C18: a connection is upgraded only when the auth cookie validates and
\* the csrf parameter is non-empty and equal to the csrf cookie; otherwise
\* the answer is 401 or 403 and the request leaves no registry entry, no
\* subscription and no frame
C18_UpgradeOnlyIfAuthorised ==
    /\ [][hs' # hs =>
            LET c == hs'.c
                authOk == ValidateJWTFromRequest(hs'.jwt, hs'.tok, clock)
                csrfOk == /\ hs'.csrfQ # ""
                          /\ hs'.csrfC.present
                          /\ hs'.csrfQ = hs'.csrfC.value
            IN  /\ conns'[c].st = "open" => authOk /\ csrfOk
                /\ ~authOk => hs'.answer = 401
                /\ authOk /\ ~csrfOk => hs'.answer = 403
                /\ hs'.answer \in {401, 403}
                      => /\ wsClients' = wsClients /\ handles' = handles
                         /\ conns'[c].st = "rejected"]_vars
    /\ [](\A c \in Conns :
            conns[c].st = "rejected"
                => /\ c \notin wsClients /\ c \notin DOMAIN handles
                   /\ conns[c].frames = <<>>)

\* one request was turned away for its csrf parameter while another
\* connection is upgraded, registered and has been sent its snapshot
C18_Witness ==
    /\ hs.answer = 403 /\ hs.csrfQ # "" /\ conns[hs.c].st = "rejected"
    /\ \E c \in Conns :
          /\ conns[c].st = "open" /\ c \in wsClients /\ c \in DOMAIN handles
          /\ conns[c].frames # <<>>

-----------------------------------------------------------------------------
(* security.SecurityMiddleware in front of the api router *)

RECURSIVE HasPrefix(_, _)
HasPrefix(s, prefix) ==
    IF prefix = <<>> THEN TRUE
    ELSE IF s = <<>> THEN FALSE
    ELSE s[1] = prefix[1] /\ HasPrefix(Tail(s), Tail(prefix))

ApiPrefix == <<"/", "a", "p", "i", "/">>
MetricsPath == <<"/", "m", "e", "t", "r", "i", "c", "s">>

CsrfHeaderOk_AllowsEmpty(header, cookie) == header = cookie

\* the X-CSRF-Token header against the csrf cookie
CsrfHeaderOk(header, cookie) ==
    ~(header = "" \/ cookie = "" \/ header # cookie)

\* the answer to request r: the status the middleware writes, or 200 with
\* ran when it hands the request to the wrapped handler
SecurityMiddleware(r, clk) ==
    IF r.method = "OPTIONS" THEN [status |-> 204, ran |-> FALSE]
    ELSE IF HasPrefix(r.path, ApiPrefix) /\ r.path # MetricsPath
    THEN IF ~CsrfHeaderOk(r.header, GetCSRFFromRequest(r.csrfC))
         THEN [status |-> 403, ran |-> FALSE]
         ELSE IF ~ValidateJWTFromRequest(r.jwt, r.tok, clk)
         THEN [status |-> 401, ran |-> FALSE]
         ELSE [status |-> 200, ran |-> TRUE]
    ELSE [status |-> 200, ran |-> TRUE]

Paths ==
    { ApiPrefix \o <<"f">>, ApiPrefix, <<"/", "a", "p", "i">>, <<"/">>,
      MetricsPath }

Requests ==
    { [method |-> m, path |-> p, header |-> h, csrfC |-> ck, jwt |-> j[1],
       tok |-> j[2]] :
        m \in {"GET", "OPTIONS"}, p \in Paths, h \in CsrfValues,
        ck \in CsrfCookies, j \in JwtCases }

\* a request reaches the api router
Arrive ==
    /\ req' \in Requests
    /\ resp' = [status |-> 0, ran |-> FALSE]
    /\ UNCHANGED <<storeVars, wsVars, jwtVars, sessVars, diffVars, beatVars, wireVars, stopVars, taskVars, ingVars, busVars, srvVars>>

Serve ==
    /\ req # NoRequest /\ resp.status = 0
    /\ resp' = SecurityMiddleware(req, clock)
    /\ UNCHANGED <<storeVars, wsVars, jwtVars, sessVars, diffVars, beatVars, wireVars, stopVars, taskVars, ingVars, busVars, srvVars, req>>

ApiNext == Arrive \/ Serve

SpecApi == StoreInit /\ [][ApiNext]_vars

UnderApi(r) == Len(r.path) >= 5 /\ SubSeq(r.path, 1, 5) = ApiPrefix

CsrfPasses(r) ==
    /\ r.header # "" /\ r.csrfC.present /\ r.csrfC.value # ""
    /\ r.header = r.csrfC.value

AuthPasses(r) == ValidateJWTFromRequest(r.jwt, r.tok, clock)

\* C19: under /api/ the wrapped handler runs only when the csrf header and
\* cookie are non-empty and equal and the auth cookie validates; a csrf
\* failure is answered 403, an auth failure after csrf passed 401
C19_ApiGuarded ==
    (resp.status # 0 /\ UnderApi(req))
        => /\ resp.ran => CsrfPasses(req) /\ AuthPasses(req)
           /\ ~CsrfPasses(req) => resp.status = 403
           /\ CsrfPasses(req) /\ ~AuthPasses(req) => resp.status = 401

\* C19 as it holds: the same for every request under /api/ that is not an
\* OPTIONS request; an OPTIONS request is answered 204 and the wrapped
\* handler does not run
C19_ApiGuardedButPreflight ==
    (resp.status # 0 /\ UnderApi(req))
        => /\ resp.ran => CsrfPasses(req) /\ AuthPasses(req)
           /\ req.method = "OPTIONS" => resp.status = 204 /\ ~resp.ran
           /\ req.method # "OPTIONS"
                => /\ ~CsrfPasses(req) => resp.status = 403
                   /\ CsrfPasses(req) /\ ~AuthPasses(req)
                         => resp.status = 401

\* a GET under /api/ with matching csrf values was refused for its expired
\* token
C19_Witness ==
    /\ UnderApi(req) /\ req.method = "GET" /\ CsrfPasses(req)
    /\ req.tok.exp = ExpPast /\ resp.status = 401 /\ ~resp.ran

-----------------------------------------------------------------------------
(* the session and the viewport *)

\* the items a step's diff upserts and the keys it deletes, read off the
\* client's map before and after
StepUpserts ==
    {k \in DOMAIN client' : k \notin DOMAIN client \/ client'[k] # client[k]}
StepDeletes == DOMAIN client \ DOMAIN client'

-----------------------------------------------------------------------------
(* the reader on viewport messages *)

\* what a parsed bbox must satisfy to be taken
BBoxWellFormed(b) ==
    /\ b[1] >= -180 /\ b[3] <= 180 /\ b[2] >= -90 /\ b[4] <= 90
    /\ b[1] < b[3] /\ b[2] < b[4]

\* the step took a viewport: the recorded bbox changed while the session
\* went on
ViewportTaken == viewVars' # viewVars /\ status' # "closed"

-----------------------------------------------------------------------------
(* security: signing and validating the session token *)

\* the token text is head "." pay "." sig.  head and pay are base64url texts
\* of the JSON header and payload: the payload text is modelled by the
\* claims it encodes.  sig is the base64url text of a 32-byte MAC: 43
\* characters, the last of which carries four bits of the MAC and two spare
\* bits, optionally followed by "="
SessionTtl == 2592000

\* the ttl signJWT is given: a minute, or the 30 days of EnsureAuthCookies;
\* the clock moves in thirds of the run
JwtTtls == {60, SessionTtl}
JwtStep == MaxClock \div 3

JwtHead == "HS256.JWT"
Payload(sub, iat, exp) == [sub |-> sub, iat |-> iat, exp |-> exp]
SigText(mac, spare, padded) ==
    [mac |-> mac, spare |-> spare, padded |-> padded]

\* hmac.New(sha256.New, secret) over head "." pay: one MAC per key and text
hmacSum(secret, head, pay) == [key |-> secret, head |-> head, pay |-> pay]

\* EncodeToString with the "=" trimmed: spare bits zero, no padding
base64urlEncode(mac) == SigText(mac, 0, FALSE)

\* DecodeString of base64.URLEncoding after the padding is restored: the
\* encoding is not strict, so the spare bits of the last character are
\* dropped unread, and a "=" already there is taken as the padding
base64urlDecode_Strict(t) ==
    IF t.spare = 0 /\ ~t.padded THEN t.mac ELSE [corrupt |-> TRUE]

base64urlDecode(t) == t.mac

signJWT(secret, sub, ttl, clk) ==
    LET pay == Payload(sub, NowUnix(clk), TsAdd(NowUnix(clk), ttl))
    IN  <<JwtHead, pay, base64urlEncode(hmacSum(secret, JwtHead, pay))>>

\* the token as validateJWT goes through it under the given secret
TokenOf(text, secret) ==
    Token(3, TRUE,
          hmacSum(secret, text[1], text[2]) = base64urlDecode(text[3]),
          TRUE, text[2].exp)

\* what a client may send back: the token as issued, its payload with a later
\* exp, its signature with another MAC, with spare bits set, or with "="
Altered(t) ==
    { t,
      <<t[1], [t[2] EXCEPT !.exp = TsAdd(@, SessionTtl)], t[3]>>,
      <<t[1], t[2], [t[3] EXCEPT !.mac = hmacSum(0, t[1], t[2])]>>,
      <<t[1], t[2], [t[3] EXCEPT !.spare = 1]>>,
      <<t[1], t[2], [t[3] EXCEPT !.padded = TRUE]>> }

\* EnsureAuthCookies signs a token for a new visitor
JwtSign ==
    /\ Cardinality(issued) < MaxIssued
    /\ \E ttl \in JwtTtls :
          issued' = issued \cup {signJWT(jwtSecret, "u", ttl, clock)}
    /\ UNCHANGED <<jwtSecret, presented, storeVars, wsVars, ingVars,
                   busVars, srvVars, apiVars, sessVars, diffVars, beatVars, wireVars, stopVars, taskVars>>

\* a request carries a token in mfr_jwt
JwtValidate ==
    /\ \E t \in issued : \E a \in Altered(t) :
          presented' = [tok |-> a, at |-> clock, key |-> jwtSecret,
                        ok |-> validateJWT(TokenOf(a, jwtSecret), clock)]
    /\ UNCHANGED <<jwtSecret, issued, storeVars, wsVars, ingVars, busVars,
                   srvVars, apiVars, sessVars, diffVars, beatVars, wireVars, stopVars, taskVars>>

\* the process restarts without its secret file: InitAuth generates another
JwtRestart ==
    /\ jwtSecret < MaxSecrets
    /\ jwtSecret' = jwtSecret + 1
    /\ UNCHANGED <<issued, presented, storeVars, wsVars, ingVars, busVars,
                   srvVars, apiVars, sessVars, diffVars, beatVars, wireVars, stopVars, taskVars>>

JwtTick ==
    /\ clock + JwtStep <= MaxClock
    /\ clock' = clock + JwtStep
    /\ UNCHANGED <<pos, now, mapcs, panicked, lastOp, lastBatch, nowWritten,
                   wsVars, sysVars>>

JwtNext == JwtSign \/ JwtValidate \/ JwtRestart \/ JwtTick

SpecJwt == StoreInit /\ [][JwtNext]_vars

\* C22: the token validated last is accepted only if its signature is the one
\* signing its header and payload under the secret in use gives and its exp
\* has not passed; a token the server signed under that secret is accepted
\* up to its exp; and a token that is none of the tokens the server signed
\* (payload or signature altered) is rejected.
C22_OnlySignedUnexpired ==
    presented # NoPresented =>
        LET t == presented.tok
            signedNow ==
                t[3] = base64urlEncode(hmacSum(presented.key, t[1], t[2]))
            expired == TsLess(t[2].exp, NowUnix(presented.at))
        IN  /\ presented.ok => (signedNow /\ ~expired)
            /\ (t \in issued /\ signedNow /\ ~expired) => presented.ok
            /\ t \notin issued => ~presented.ok

-----------------------------------------------------------------------------
(* UpsertStates on rows without a finite position *)

\* lon or lat is missing, NaN, +Inf or -Inf
NoFinitePosition(st) == ~(st.lon.k = "f" /\ st.lat.k = "f")

\* C23: an UpsertStates call whose rows all lack a finite lon or lat writes
\* and changes no pos, now or map:cs key.
C23_NonFiniteDropped ==
    [][(/\ lastOp' = "upsert" /\ lastBatch' # <<>>
        /\ \A i \in DOMAIN lastBatch' : NoFinitePosition(lastBatch'[i]))
          => UNCHANGED <<pos, now, mapcs>>]_vars

-----------------------------------------------------------------------------
(* Store.TrackByCallsign *)

\* the pos keys of one aircraft, first key first (tx.AscendKeys)
RECURSIVE AscendKeys(_)
AscendKeys(ks) ==
    IF ks = {} THEN <<>>
    ELSE LET low == CHOOSE k \in ks :
                        \A o \in ks : o # k => LexLess(k[2], o[2])
         IN  <<low>> \o AscendKeys(ks \ {low})

\* (points, icao, err): the scan stops once limit points are collected
TrackByCallsign(db, raw, limit) ==
    LET icao == ResolveIcao(db, normalizeCallsign(raw))
        keys == AscendKeys({k \in DOMAIN db.pos : k[1] = icao})
        n == IF limit > 0 /\ Len(keys) >= limit THEN limit ELSE Len(keys)
    IN  IF icao = <<>> THEN [pts |-> <<>>, icao |-> <<>>, err |-> TRUE]
        ELSE [pts |-> [i \in 1..n |-> Unmarshal(db.pos[keys[i]].val)],
              icao |-> icao, err |-> FALSE]

TrackLimits == {0, 1, 2}

\* C24: whenever the callsign resolves, TrackByCallsign returns live points
\* of the resolved icao in ascending ts order, every one of them for limit 0
\* and at most limit of them for a positive limit.
C24_TrackAscending ==
    \A limit \in TrackLimits :
        LET r == TrackByCallsign(Store, CsAAL, limit)
            own == {k \in DOMAIN pos : k[1] = r.icao}
        IN  ~r.err =>
              /\ \A i \in DOMAIN r.pts :
                    \E k \in own : Unmarshal(pos[k].val) = r.pts[i]
              /\ \A i, j \in DOMAIN r.pts :
                    i < j => TsLess(r.pts[i].ts, r.pts[j].ts)
              /\ limit = 0 => Len(r.pts) = Cardinality(own)
              /\ limit > 0 => Len(r.pts) <= limit

-----------------------------------------------------------------------------
(* the callsign index over the retention period *)

HalfRetention == Retention \div 2

\* half a retention period passes; keys whose TTL has run out are gone
RetTick ==
    /\ ~panicked
    /\ clock \div HalfRetention < MaxHalves
    /\ clock' = clock + HalfRetention
    /\ Commit(DB(Sweep(pos, clock'), Sweep(now, clock'), Sweep(mapcs, clock')))
    /\ lastOp' = "tick"
    /\ lastBatch' = <<>>
    /\ nowWritten' = {}
    /\ UNCHANGED <<panicked, wsVars, sysVars>>

RetNext == Ingest \/ Rebuild \/ RetTick

SpecRetention == StoreInit /\ [][RetNext]_vars

\* C25: every live map:cs entry points to an icao that has a live pos key,
\* and LatestByCallsign on a callsign whose mapping resolves to an aircraft
\* without a now key returns no point and no error.
C25_MappingsHavePositions ==
    /\ \A cs \in DOMAIN mapcs : mapcs[cs].val \in PosIcaos(pos)
    /\ \A cs \in Callsigns :
          LET icao == ResolveIcao(Store, normalizeCallsign(cs))
          IN  (icao # <<>> /\ icao \notin DOMAIN now) =>
                 LatestByCallsign(Store, cs) = [point |-> Nil, err |-> FALSE]

-----------------------------------------------------------------------------
(* several /ws/flights sessions: wire errors *)

\* wsConn.ReadFrame on a frame with the given header, on a connection that
\* did not negotiate permessage-deflate: TRUE when it returns an error
ReadFrameFails_UnmaskedOk(f) == f.io \/ ~f.fin \/ f.rsv1

ReadFrameFails(f) == f.io \/ ~f.mask \/ ~f.fin \/ f.rsv1

\* what a client may put on the wire: a text frame (an ack), the same
\* unmasked, the same as the first fragment of a message; or the connection
\* breaks under the read
ClientFrames ==
    { Frame(FALSE, TRUE, TRUE, FALSE, 1),
      Frame(FALSE, TRUE, FALSE, FALSE, 1),
      Frame(FALSE, FALSE, TRUE, FALSE, 1),
      Frame(TRUE, FALSE, FALSE, FALSE, 0) }

\* the handler has returned: its variables are gone
Gone(why, f) ==
    [st |-> "closed", seq |-> 0, inflight |-> FALSE, bufferHigh |-> FALSE,
     pending |-> FALSE, last |-> EmptyMap, rx |-> f, why |-> why]

\* trySend on the loop variables held in s, against the current items cur;
\* an error makes the handler return
SessSend(s, cur, ok) ==
    IF ~CanSend(s.inflight, s.bufferHigh, s.pending) THEN s
    ELSE IF DiffUp(s.last, cur) = {} /\ DiffDel(s.last, cur) = {}
    THEN [s EXCEPT !.pending = FALSE, !.last = cur]
    ELSE IF ~ok THEN Gone("write", NoFrame)
    ELSE [s EXCEPT !.seq = NextSeq(@), !.inflight = TRUE, !.last = cur,
                   !.pending = PendingAfterSend]

\* the ack case of the loop for an ack of the current diff
SessAck(s, buffered, cur, ok) ==
    LET t == [s EXCEPT !.inflight = FALSE,
                       !.bufferHigh = BufferHighOf(buffered)]
    IN  IF BufferHighOf(buffered) THEN t ELSE SessSend(t, cur, ok)

SessCur == makeCur(CurrentAll(now))

RECURSIVE SumSeq(_)
SumSeq(cs) ==
    IF cs = {} THEN 0
    ELSE LET c == CHOOSE x \in cs : TRUE IN sess[c].seq + SumSeq(cs \ {c})

\* diffs may still be written in this run
SessBudget == SumSeq(Conns) < MaxSeq

\* registerWS / unregisterWS and subscribe / unsubscribe follow the handler:
\* in while it runs, out once it has returned
SessStep(ss) ==
    /\ sess' = ss
    /\ wsClients' = {c \in Conns : ss[c].st = "open"}
    /\ handles' = [c \in {x \in Conns : ss[x].st = "open"} |->
                      IF c \in DOMAIN handles THEN handles[c] ELSE 0]

SessRest ==
    <<storeVars, wsVars, ingVars, busOp, conns, hs, proc, apiVars, jwtVars,
      diffVars, beatVars, wireVars, stopVars, taskVars>>

\* the handshake has passed: registerWS, UpdatesSubscribe, the initial send
SessOpen(c) ==
    /\ sess[c].st = "idle" /\ SessBudget
    /\ \E ok \in BOOLEAN :
          SessStep([sess EXCEPT ![c] =
                      SessSend([@ EXCEPT !.st = "open", !.pending = TRUE],
                               SessCur, ok)])
    /\ UNCHANGED SessRest

\* the reader gets a frame.  On an error it returns and closes done, and the
\* loop returns on case <-done; an ack of the current diff goes to the loop
\* (the socket buffer is empty here: backpressure is followed in SpecWS)
SessRead(c) ==
    /\ sess[c].st = "open" /\ SessBudget
    /\ \E f \in ClientFrames :
          IF ReadFrameFails(f)
          THEN SessStep([sess EXCEPT ![c] = Gone("read", f)])
          ELSE IF sess[c].seq > 0
          THEN \E ok \in BOOLEAN :
                 SessStep([sess EXCEPT ![c] =
                             SessAck([@ EXCEPT !.rx = f], 0, SessCur, ok)])
          ELSE SessStep([sess EXCEPT ![c].rx = f])
    /\ UNCHANGED SessRest

\* case <-updates
SessUpdate(c) ==
    /\ sess[c].st = "open" /\ SessBudget
    /\ handles[c] > 0
    /\ \E ok \in BOOLEAN :
          LET ss == [sess EXCEPT ![c] =
                       SessSend([@ EXCEPT !.pending = TRUE], SessCur, ok)]
          IN  /\ sess' = ss
              /\ wsClients' = {x \in Conns : ss[x].st = "open"}
              /\ handles' = [x \in {y \in Conns : ss[y].st = "open"} |->
                                IF x = c THEN handles[x] - 1 ELSE handles[x]]
    /\ UNCHANGED SessRest

\* case <-ping.C with a heartbeat due whose write fails
SessHeartbeatFails(c) ==
    /\ sess[c].st = "open"
    /\ SessStep([sess EXCEPT ![c] = Gone("write", NoFrame)])
    /\ UNCHANGED SessRest

\* case <-r.Context().Done()
SessCancel(c) ==
    /\ sess[c].st = "open"
    /\ SessStep([sess EXCEPT ![c] = Gone("cancel", NoFrame)])
    /\ UNCHANGED SessRest

\* rows of one aircraft, at two times
SessRows == {r \in WsRows : r.icao = IcaoA}

SessIngest ==
    /\ \E r \in SessRows : now' = WriteRow(Store, r, clock).now
    /\ UNCHANGED <<clock, pos, mapcs, panicked, lastOp, lastBatch,
                   nowWritten, wsVars, sysVars>>

\* UpdateBus.Publish after an ingest: one non-blocking send per subscriber
SessPublish ==
    /\ handles' = [s \in DOMAIN handles |-> TrySend(handles[s])]
    /\ UNCHANGED <<sess, wsClients, SessRest>>

SessNext ==
    \/ \E c \in Conns :
          \/ SessOpen(c) \/ SessRead(c) \/ SessUpdate(c)
          \/ SessHeartbeatFails(c) \/ SessCancel(c)
    \/ SessPublish \/ SessIngest

SpecSessions == StoreInit /\ [][SessNext]_vars

\* every session but c is as it was: loop variables, registry, bus handle
OthersKept(c) ==
    \A d \in Conns \ {c} :
        /\ sess'[d] = sess[d]
        /\ (d \in wsClients') = (d \in wsClients)
        /\ (d \in DOMAIN handles') = (d \in DOMAIN handles)
        /\ d \in DOMAIN handles => handles'[d] = handles[d]

WellFormed(f) == ~f.io /\ f.fin /\ f.mask /\ ~f.rsv1

\* C26: a session whose handler is running has read well-formed frames only,
\* and the registry and the bus hold exactly the sessions whose handler is
\* running; a step in which a session reads a frame that is unmasked or
\* fragmented, or whose read fails, makes its handler return; and a step in
\* which a handler returns (read error, write error, cancellation) takes
\* that session out of the registry and the bus and leaves every other
\* session's seq, last, inflight, bufferHigh, pending, registration and
\* handle as they were.
C26_WireErrorEndsThatSessionOnly ==
    /\ [](\A c \in Conns :
            /\ sess[c].st = "open" =>
                  (sess[c].rx = NoFrame \/ WellFormed(sess[c].rx))
            /\ (c \in wsClients) = (sess[c].st = "open")
            /\ (c \in DOMAIN handles) = (c \in wsClients))
    /\ [][\A c \in Conns :
            /\ (sess'[c].rx # sess[c].rx /\ ~WellFormed(sess'[c].rx))
                  => sess'[c].st = "closed"
            /\ (sess'[c].st = "closed" /\ sess[c].st # "closed") =>
                  /\ c \notin wsClients' /\ c \notin DOMAIN handles'
                  /\ OthersKept(c)]_vars

\* one session has returned after an unmasked frame while another,
\* registered and subscribed, has been sent its second diff and holds a
\* notification
C26_Witness ==
    \E c, d \in Conns :
        /\ sess[c].st = "closed" /\ sess[c].why = "read" /\ ~sess[c].rx.mask
        /\ ~sess[c].rx.io
        /\ sess[d].st = "open" /\ sess[d].seq >= 2 /\ sess[d].inflight
        /\ d \in wsClients /\ handles[d] = 1

-----------------------------------------------------------------------------
(* one session: what each send attempt builds and writes *)

DiffRest ==
    <<ingVars, busVars, srvVars, apiVars, jwtVars, sessVars, beatVars, wireVars, stopVars, taskVars>>

\* the record of a trySend call entered with these flags: kept as it was
\* when the guard returns at once
Attempt(infl, high, pend, ok) ==
    LET cur == makeCur(CurrentAll(now))
        up == DiffUp(last, cur)
        dl == DiffDel(last, cur)
    IN  IF ~CanSend(infl, high, pend) THEN sent
        ELSE [kind |-> IF up = {} /\ dl = {} THEN "empty"
                       ELSE IF ok THEN "diff" ELSE "failed",
              lst |-> last, cur |-> cur, up |-> up, dl |-> dl,
              seq0 |-> seq, seq1 |-> seq', pend1 |-> pending',
              wrote |-> Len(wire') > Len(wire)]

\* the initial send
DiffConnect ==
    /\ status = "started"
    /\ \E ok \in BOOLEAN :
          /\ trySend(inflight, bufferHigh, pending, "open", ok, "connect")
          /\ sent' = Attempt(inflight, bufferHigh, pending, ok)
    /\ UNCHANGED <<bufferHigh, viewVars, ackCh, updCh, throttled, storeVars,
                   DiffRest>>

\* the client acks the diff in flight with an empty socket buffer, and the
\* loop takes the ack
DiffAck ==
    /\ Serving /\ inflight
    /\ \E ok \in BOOLEAN :
          /\ trySend(FALSE, FALSE, pending, "open", ok, "ack")
          /\ sent' = Attempt(FALSE, FALSE, pending, ok)
    /\ bufferHigh' = BufferHighOf(0)
    /\ UNCHANGED <<viewVars, ackCh, updCh, throttled, storeVars, DiffRest>>

\* a notification arrives and the loop takes it
DiffUpdate ==
    /\ Serving
    /\ \E ok \in BOOLEAN :
          /\ trySend(inflight, bufferHigh, TRUE, "open", ok, "update")
          /\ sent' = Attempt(inflight, bufferHigh, TRUE, ok)
    /\ UNCHANGED <<bufferHigh, viewVars, ackCh, updCh, throttled, storeVars,
                   DiffRest>>

\* the handler returns: after a failed write, or on cancellation
DiffClose ==
    /\ status \in {"started", "open", "failed"}
    /\ status' = "closed"
    /\ seq' = 0 /\ inflight' = FALSE /\ bufferHigh' = FALSE
    /\ pending' = FALSE /\ last' = EmptyMap
    /\ wire' = <<>> /\ client' = EmptyMap /\ readCur' = EmptyMap
    /\ firstDiff' = NoDiff /\ firstBy' = "none"
    /\ ackSeen' = FALSE /\ missed' = 0 /\ coalesced' = FALSE /\ burst' = 0
    /\ sent' = NoSent
    /\ UNCHANGED <<viewVars, readBBox, ackCh, updCh, throttled, storeVars,
                   DiffRest>>

DiffNext ==
    \/ DiffConnect \/ DiffAck \/ DiffUpdate \/ DiffClose
    \/ NowUpsert \/ NowExpire

SpecDiff == StoreInit /\ [][DiffNext]_vars

\* the two items differ in a field a client is shown
Differs(a, b) ==
    \E f \in {"lon", "lat", "alt", "track", "speed", "ts", "callsign"} :
        a[f] # b[f]

\* the items of cur that are new or differ, and the keys that went away
NewOrDiffering(lst, cur) ==
    {cur[k] : k \in {x \in DOMAIN cur :
                        x \notin DOMAIN lst \/ Differs(lst[x], cur[x])}}

GoneKeys(lst, cur) == (DOMAIN lst) \ (DOMAIN cur)

\* C27: a send attempt that got past the guard built upsert as exactly the
\* items of cur whose key is absent from last or that differ from last's
\* item in lon, lat, alt, track, speed, ts or callsign, and delete as
\* exactly the keys of last absent from cur, with no key in both; it wrote a
\* diff and advanced seq by one only when one of the two was not empty, and
\* when both were empty it wrote nothing, left seq as it was and cleared
\* pending.
C27_DiffExact ==
    sent.kind # "none" =>
        /\ sent.up = NewOrDiffering(sent.lst, sent.cur)
        /\ sent.dl = GoneKeys(sent.lst, sent.cur)
        /\ \A it \in sent.up : ItemKey(it) \notin sent.dl
        /\ (sent.kind = "empty") = (sent.up = {} /\ sent.dl = {})
        /\ sent.kind = "empty" =>
              ~sent.wrote /\ sent.seq1 = sent.seq0 /\ ~sent.pend1
        /\ sent.kind = "diff" =>
              sent.wrote /\ sent.seq1 = sent.seq0 + 1

\* a diff after the first that deletes a key and upserts an item of which
\* only the ts changed
C27_Witness ==
    /\ sent.kind = "diff" /\ sent.lst # EmptyMap /\ sent.seq0 > 0
    /\ sent.dl # {}
    /\ \E it \in sent.up :
          /\ ItemKey(it) \in DOMAIN sent.lst
          /\ sent.lst[ItemKey(it)].ts # it.ts
          /\ sent.lst[ItemKey(it)].lon = it.lon

-----------------------------------------------------------------------------
(* one session: acks of any seq *)

\* the client acks the current diff, the one before or one not sent yet,
\* with a socket buffer at the limit or over it
ClientAckAny ==
    \E s \in {seq - 1, seq, seq + 1}, b \in {BufferLimit, BufferLimit + 1} :
        ReaderAck(s, b)

AckNext ==
    \/ Connect \/ HandleAck \/ HandleUpdate \/ Close
    \/ ClientAckAny \/ Publish \/ NowUpsert

SpecAck == StoreInit /\ [][AckNext]_vars

\* the loop takes an ack from ackCh
AckTaken == ackCh # <<>> /\ ackCh' = Tail(ackCh) /\ status' # "closed"

\* C28: a step in which the loop takes an ack whose seq is not the session's
\* seq leaves status, seq, inflight, pending, last and bufferHigh as they
\* were and writes nothing; the reader never queues an ack with seq <= 0.
C28_OtherAckIgnored ==
    /\ [](\A i \in DOMAIN ackCh : ackCh[i].seq > 0)
    /\ [][(AckTaken /\ Head(ackCh).seq # seq) =>
            UNCHANGED <<status, sendVars, bufferHigh, wire, client>>]_vars

\* the loop is about to take an ack of a diff not sent yet while a diff is
\* in flight, a notification has been noted and the items have changed:
\* accepting it would send the next diff
C28_Witness ==
    /\ status = "open" /\ seq < MaxSeq /\ seq > 0
    /\ inflight /\ pending /\ ~bufferHigh
    /\ ackCh # <<>> /\ Head(ackCh).seq > seq
    /\ Head(ackCh).buffered = BufferLimit
    /\ makeCur(CurrentAll(now)) # last

-----------------------------------------------------------------------------
(* one session: last and the wire *)

\* C29: while the handler runs, a step that changes the content of last
\* writes a diff, and last becomes the cur that diff was built from; a step
\* in which the write of a diff fails writes nothing and leaves last as it
\* was, inflight clear and pending set, as the attempt found them, and the
\* only step after it is the handler's return; an attempt that found
\* nothing to send found cur equal to last.
C29_LastFollowsWire ==
    /\ [](/\ sent.kind = "empty" => sent.cur = sent.lst
          /\ sent.kind = "failed" => status = "failed")
    /\ [][/\ (last' # last /\ status' # "closed") =>
                /\ Len(wire') = Len(wire) + 1
                /\ sent'.kind = "diff" /\ last' = sent'.cur
          /\ (status' = "failed" /\ status # "failed") =>
                /\ wire' = wire /\ last' = last
                /\ ~inflight' /\ pending'
                /\ sent'.kind = "failed" /\ sent'.cur # last
          /\ status = "failed" => status' = "closed"]_vars

\* the write of the second diff has failed: last still holds the items of
\* the first, the store holds others
C29_Witness ==
    /\ status = "failed" /\ sent.kind = "failed" /\ sent.seq0 = 1
    /\ Len(wire) = 1
    /\ last # EmptyMap /\ last = sent.lst
    /\ makeCur(CurrentAll(now)) # last
    /\ ~inflight /\ pending

-----------------------------------------------------------------------------
(* one session: leaving backpressure *)

\* the loop takes an ack of the current diff that reports a buffer within
\* the limit, while bufferHigh is set
LowAckTaken ==
    /\ AckTaken /\ bufferHigh
    /\ Head(ackCh).seq = seq /\ Head(ackCh).buffered <= BufferLimit

\* the loop takes a notification with the latest diff acked and bufferHigh
\* clear (it keeps no trace of a backpressure that has ended)
UpdateTaken ==
    /\ updCh > 0 /\ updCh' = updCh - 1 /\ status' # "closed"
    /\ seq > 0 /\ ~inflight /\ ~bufferHigh

\* the step wrote the next diff
WroteNext ==
    wire' = Append(wire, seq + 1) /\ seq' = seq + 1 /\ inflight'

\* the current items are not the ones the client was sent last
ItemsMoved == makeCur(CurrentAll(now)) # last

\* C30 as stated: unless a write fails, the ack that ends backpressure
\* clears bufferHigh and writes diff N+1 whenever pending is set, and the
\* notification taken after backpressure writes diff N+1.
C30_NextDiffWhenPending ==
    [][/\ (LowAckTaken /\ status' = "open") =>
             ~bufferHigh' /\ (pending => WroteNext)
       /\ (UpdateTaken /\ status' = "open") => WroteNext]_vars

\* C30: the ack that ends backpressure clears bufferHigh and attempts a
\* send, and so does the notification taken once bufferHigh and inflight
\* are clear: unless the write fails, the attempt writes diff N+1 when
\* pending is set and the current items differ from last; when they do not
\* differ it writes nothing and clears pending; when pending is not set the
\* ack writes nothing.
C30_NextDiffWhenPendingAndMoved ==
    [][/\ LowAckTaken =>
             /\ ~bufferHigh'
             /\ IF pending /\ ItemsMoved
                THEN status' = "open" => WroteNext
                ELSE wire' = wire /\ seq' = seq /\ ~inflight' /\ ~pending'
       /\ UpdateTaken =>
             IF ItemsMoved
             THEN status' = "open" => WroteNext
             ELSE wire' = wire /\ seq' = seq /\ ~inflight' /\ ~pending']_vars

\* backpressure is on after an ack of diff 1 or later, a notification has
\* been noted, the items have changed, and the loop is about to take a
\* second ack of that diff reporting a buffer at the limit
C30_Witness ==
    /\ status = "open" /\ seq > 0 /\ seq < MaxSeq
    /\ bufferHigh /\ throttled /\ pending /\ ~inflight
    /\ ackCh # <<>> /\ Head(ackCh) = [seq |-> seq, buffered |-> BufferLimit]
    /\ ItemsMoved

-----------------------------------------------------------------------------
(* one session: the 30-second ticker *)

BeatRest ==
    <<ingVars, busVars, srvVars, apiVars, jwtVars, sessVars, diffVars,
      wireVars, stopVars, taskVars>>

\* time moves in steps of BeatStep seconds
BeatStep == HbAfter \div 5

\* time.Since(lastSend) > 25*time.Second
HbDue_AtLimit(t, ls) == t - ls >= HbAfter

HbDue(t, ls) == t - ls > HbAfter

\* lastSend = time.Now() after a diff has been written
SendStamp == lastSend' = IF Len(wire') > Len(wire) THEN wsNow ELSE lastSend

\* the initial send
BeatConnect ==
    /\ status = "started"
    /\ \E ok \in BOOLEAN :
          trySend(inflight, bufferHigh, pending, "open", ok, "connect")
    /\ SendStamp
    /\ UNCHANGED <<bufferHigh, viewVars, ackCh, updCh, throttled, storeVars,
                   wsNow, nextTick, tickFrames, BeatRest>>

\* the client acks the diff in flight with an empty socket buffer, and the
\* loop takes the ack
BeatAck ==
    /\ Serving /\ inflight
    /\ \E ok \in BOOLEAN : trySend(FALSE, FALSE, pending, "open", ok, "ack")
    /\ bufferHigh' = BufferHighOf(0)
    /\ SendStamp
    /\ UNCHANGED <<viewVars, ackCh, updCh, throttled, storeVars, wsNow,
                   nextTick, tickFrames, BeatRest>>

\* a notification arrives and the loop takes it
BeatUpdate ==
    /\ Serving
    /\ \E ok \in BOOLEAN :
          trySend(inflight, bufferHigh, TRUE, "open", ok, "update")
    /\ SendStamp
    /\ UNCHANGED <<bufferHigh, viewVars, ackCh, updCh, throttled, storeVars,
                   wsNow, nextTick, tickFrames, BeatRest>>

\* the handler returns: the ticker is stopped
BeatReturn ==
    /\ status' = "closed"
    /\ seq' = 0 /\ inflight' = FALSE /\ bufferHigh' = FALSE
    /\ pending' = FALSE /\ last' = EmptyMap
    /\ wire' = <<>> /\ client' = EmptyMap /\ readCur' = EmptyMap
    /\ firstDiff' = NoDiff /\ firstBy' = "none"
    /\ ackSeen' = FALSE /\ missed' = 0 /\ coalesced' = FALSE /\ burst' = 0
    /\ wsNow' = 0 /\ lastSend' = 0 /\ nextTick' = PingEvery
    /\ tickFrames' = <<>>
    /\ UNCHANGED <<viewVars, readBBox, ackCh, updCh, throttled, storeVars,
                   BeatRest>>

BeatClose == status \in {"started", "open", "failed"} /\ BeatReturn

\* case <-ping.C
BeatTick ==
    /\ status = "open" /\ wsNow >= nextTick
    /\ IF HbDue(wsNow, lastSend)
       THEN \E ok \in BOOLEAN :
              IF ok
              THEN /\ tickFrames' = <<"hb">> /\ lastSend' = wsNow
                   /\ nextTick' = nextTick + PingEvery
                   /\ UNCHANGED <<wsVars, storeVars, wsNow, BeatRest>>
              ELSE BeatReturn
       ELSE /\ tickFrames' = <<"ping">>
            /\ nextTick' = nextTick + PingEvery
            /\ UNCHANGED <<wsVars, storeVars, wsNow, lastSend, BeatRest>>

\* time passes; a tick that is due is taken before the next step of time
BeatPass ==
    /\ status \in {"started", "open"}
    /\ wsNow < nextTick /\ nextTick <= MaxTicks * PingEvery
    /\ wsNow' = wsNow + BeatStep
    /\ UNCHANGED <<wsVars, storeVars, lastSend, nextTick, tickFrames,
                   BeatRest>>

\* the store gets a row of one aircraft
BeatIngest ==
    /\ status \in {"started", "open"} /\ seq < MaxSeq
    /\ \E r \in SessRows : now' = WriteRow(Store, r, clock).now
    /\ UNCHANGED <<clock, pos, mapcs, panicked, lastOp, lastBatch,
                   nowWritten, wsVars, sysVars>>

BeatNext ==
    \/ BeatConnect \/ BeatAck \/ BeatUpdate \/ BeatClose
    \/ BeatTick \/ BeatPass \/ BeatIngest

SpecBeat == StoreInit /\ [][BeatNext]_vars

\* the loop takes a tick and goes on
TickTaken == nextTick' # nextTick /\ status' = "open"

-----------------------------------------------------------------------------
(* one connection: frames of several writers *)

WireRest ==
    <<ingVars, busVars, srvVars, apiVars, jwtVars, sessVars, diffVars,
      beatVars, stopVars, taskVars>>

\* sync.Mutex: Lock returns when nobody holds it
MuFree_Always(m) == TRUE

MuFree(m) == m = "none"

\* the n-th frame of writer w, as the two writes that make it
Chunk(w, n, part) == [by |-> w, n |-> n, part |-> part]

\* w.mu.Lock() on entry of WriteText, WritePing or WritePong
WireLock(w) ==
    /\ wpc[w] = "idle" /\ wcnt[w] < MaxFrames
    /\ MuFree(mu)
    /\ mu' = w
    /\ wpc' = [wpc EXCEPT ![w] = "locked"]
    /\ wcnt' = [wcnt EXCEPT ![w] = @ + 1]
    /\ UNCHANGED <<wbuf, sock, broken>>

\* w.buf.Write(header): an error makes the call return
WireHeader(w) ==
    /\ wpc[w] = "locked"
    /\ IF broken
       THEN /\ wpc' = [wpc EXCEPT ![w] = "flushed"]
            /\ UNCHANGED wbuf
       ELSE /\ wpc' = [wpc EXCEPT ![w] = "header"]
            /\ wbuf' = Append(wbuf, Chunk(w, wcnt[w], "h"))
    /\ UNCHANGED <<mu, wcnt, sock, broken>>

\* w.buf.Write(payload)
WirePayload(w) ==
    /\ wpc[w] = "header"
    /\ wpc' = [wpc EXCEPT ![w] = "payload"]
    /\ wbuf' = Append(wbuf, Chunk(w, wcnt[w], "p"))
    /\ UNCHANGED <<mu, wcnt, sock, broken>>

\* w.buf.Flush(): everything buffered goes to the connection, or, on an
\* error, a part of it, and the writer keeps the error
WireFlush(w) ==
    /\ wpc[w] = "payload"
    /\ wpc' = [wpc EXCEPT ![w] = "flushed"]
    /\ \E k \in 0..Len(wbuf) :
          /\ sock' = sock \o SubSeq(wbuf, 1, k)
          /\ broken' = (k < Len(wbuf))
    /\ wbuf' = <<>>
    /\ UNCHANGED <<mu, wcnt>>

\* the deferred w.mu.Unlock()
WireUnlock(w) ==
    /\ wpc[w] = "flushed"
    /\ wpc' = [wpc EXCEPT ![w] = "idle"]
    /\ mu' = IF mu = w THEN "none" ELSE mu
    /\ UNCHANGED <<wcnt, wbuf, sock, broken>>

WireNext ==
    /\ \E w \in Writers :
          \/ WireLock(w) \/ WireHeader(w) \/ WirePayload(w)
          \/ WireFlush(w) \/ WireUnlock(w)
    /\ UNCHANGED <<storeVars, wsVars, WireRest>>

SpecWire == StoreInit /\ [][WireNext]_vars

\* s is whole frames one after the other, each a header and then the
\* payload of the same frame; when cut is allowed the last frame may lack
\* its payload
Framed(s, cut) ==
    /\ \A i \in DOMAIN s :
          IF i % 2 = 1
          THEN s[i].part = "h"
          ELSE /\ s[i].part = "p"
               /\ s[i].by = s[i - 1].by /\ s[i].n = s[i - 1].n
    /\ Len(s) % 2 = 1 => cut

\* C32: what has reached the connection is whole frames one after the
\* other, whichever of the three tasks wrote them and however their steps
\* interleave; only after a write error may the last frame be cut short,
\* and nothing follows it; the buffer holds chunks of the task holding the
\* mutex only, and at most one task is between Lock and Unlock.
C32_FramesNeverInterleave ==
    /\ Framed(sock, broken)
    /\ \A i \in DOMAIN wbuf : wbuf[i].by = mu
    /\ Framed(wbuf, TRUE)
    /\ \A w \in Writers : wpc[w] # "idle" => mu = w

\* the reader's pong went out between two frames of the loop while
\* BroadcastShutdown waits with the mutex taken
C32_Witness ==
    /\ Len(sock) = 6 /\ ~broken
    /\ sock[1].by = "loop" /\ sock[3].by = "reader" /\ sock[5].by = "loop"
    /\ mu = "shutdown" /\ wpc["shutdown"] = "header"

-----------------------------------------------------------------------------
(* Store.TouchNow: what it leaves alone *)

\* C33: a TouchNow call leaves every pos:* and map:cs:* key with its value
\* and expiry, creates and deletes no now:* key, leaves every now value as
\* it was, and gives all now keys one expiry: the time of the call plus the
\* ttl handed over, or plus nowTTL when that ttl is not positive.
C33_TouchNowOnlyExtends ==
    [][lastOp' = "touch" =>
          /\ pos' = pos /\ mapcs' = mapcs
          /\ DOMAIN now' = DOMAIN now
          /\ \A k \in DOMAIN now : now'[k].val = now[k].val
          /\ \E ttl \in {0, NowTTL + 5} :
                \A k \in DOMAIN now :
                   now'[k].exp =
                      clock + (IF ttl <= 0 THEN NowTTL ELSE ttl)]_vars

\* TouchNow has just run, a minute after an upsert, with a ttl of its own:
\* the now key lives longer than the upsert gave it, next to pos and map
\* keys with their retention
C33_Witness ==
    /\ lastOp = "touch" /\ clock > 0
    /\ \E k \in DOMAIN now : now[k].exp = clock + NowTTL + 5
    /\ \E k \in DOMAIN pos : pos[k].exp < clock + Retention
    /\ DOMAIN mapcs # {}

-----------------------------------------------------------------------------
(* IngestLoop and its stop channel *)

StopRest ==
    <<ingVars, busVars, srvVars, apiVars, jwtVars, sessVars, diffVars,
      beatVars, wireVars, taskVars>>

\* fetchOnce is entered: FetchOpenSkyData sends its request
IlFetch(from) ==
    /\ il.pc = from /\ il.n < MaxFetches
    /\ il' = [il EXCEPT !.pc = "fetching", !.n = @ + 1]

\* sleep := fetchOnce(), before the loop
IlFirstFetch ==
    /\ IlFetch("start")
    /\ UNCHANGED <<stopCh, storeVars, wsVars, StopRest>>

\* the request is answered and fetchOnce finishes: UpsertStates on states,
\* TouchNow on an error; then the loop is at its select with a fresh timer
IlFetched ==
    /\ il.pc = "fetching"
    /\ il' = [il EXCEPT !.pc = "select", !.fired = FALSE]
    /\ \/ /\ \E r \in WsRows : Commit(UpsertStates(Store, <<r>>, clock).db)
          /\ lastOp' = "upsert"
       \/ /\ \E poll \in PollValues :
                Commit(TouchNow(Store, TouchTtl(PollOf(poll)), clock))
          /\ lastOp' = "touch"
    /\ lastBatch' = <<>> /\ nowWritten' = {}
    /\ UNCHANGED <<clock, panicked, stopCh, wsVars, StopRest>>

\* time.After(sleep) delivers
IlTimer ==
    /\ il.pc = "select" /\ ~il.fired
    /\ il' = [il EXCEPT !.fired = TRUE]
    /\ UNCHANGED <<stopCh, storeVars, wsVars, StopRest>>

\* the select takes case <-stop
IlSelectStop ==
    /\ il.pc = "select" /\ stopCh
    /\ il' = [il EXCEPT !.pc = "returned"]
    /\ UNCHANGED <<stopCh, storeVars, wsVars, StopRest>>

\* the select takes case <-time.After(sleep); with both cases ready the
\* runtime picks either
IlSelectTimer ==
    /\ il.fired
    /\ IlFetch("select")
    /\ UNCHANGED <<stopCh, storeVars, wsVars, StopRest>>

\* Run closes the stop channel
CloseStop ==
    /\ ~stopCh
    /\ stopCh' = TRUE
    /\ UNCHANGED <<il, storeVars, wsVars, StopRest>>

StopNext ==
    \/ IlFirstFetch \/ IlFetched \/ IlTimer \/ IlSelectStop
    \/ IlSelectTimer \/ CloseStop

SpecStop == StoreInit /\ [][StopNext]_vars

\* C34: with the stop channel closed, no step of the ingester leaves the
\* select to start a fetch and none writes to the store; and the first
\* fetch starts from the loop's entry, with no timer before it.
C34_NothingAfterStop ==
    /\ [](il.pc = "start" => il.n = 0 /\ ~il.fired)
    /\ [][stopCh =>
            /\ ~(il.pc = "select" /\ il'.pc = "fetching")
            /\ <<pos', now', mapcs', lastOp'>> = <<pos, now, mapcs, lastOp>>
       ]_vars

-----------------------------------------------------------------------------
(* one session and a client that acks each diff once *)

\* ws.onmessage of the frontend: one ack per diff received, carrying the
\* diff's seq and the socket's bufferedAmount
FrontendAck ==
    /\ seq > 0 /\ inflight /\ ~ackSeen
    /\ \E b \in {0, BufferLimit + 1} : ReaderAck(seq, b)

\* an ingest tick as the spec has it: UpsertStates, then UpdateBus.Publish
LiveIngest ==
    /\ Reading /\ il.n < MaxSeq
    /\ il' = [il EXCEPT !.n = @ + 1]
    /\ \E r \in WsRows : now' = WriteRow(Store, r, clock).now
    /\ updCh' = IF updCh < UpdCap THEN updCh + 1 ELSE updCh
    /\ UNCHANGED <<clock, pos, mapcs, panicked, lastOp, lastBatch,
                   nowWritten, status, sendVars, bufferHigh, viewVars,
                   ackCh, histVars, stopCh, StopRest>>

LiveNext ==
    \/ Connect \/ HandleAck \/ HandleUpdate \/ Close
    \/ FrontendAck \/ LiveIngest

\* the handler's goroutines and the client keep running
SpecLive ==
    /\ StoreInit /\ [][LiveNext]_vars
    /\ WF_vars(Connect) /\ WF_vars(HandleAck) /\ WF_vars(HandleUpdate)
    /\ WF_vars(FrontendAck)

\* the client's map is not the current items
Behind == client # makeCur(CurrentAll(now))

\* C35: whenever the client's map is behind the store while the handler
\* runs, it catches up or the session ends.
C35_ChangesReachClient ==
    (status \in {"started", "open"} /\ Behind)
        ~> (~Behind \/ status \notin {"started", "open"})

-----------------------------------------------------------------------------
(* one session: the ack channel filling up *)

\* the reader on an ack frame: a non-blocking send to ackCh, the ack is
\* dropped when the channel holds AckCap acks
ReaderOffer(s, b) ==
    /\ Reading
    /\ ackCh' = IF s > 0 /\ Len(ackCh) < AckCap
                THEN Append(ackCh, [seq |-> s, buffered |-> b])
                ELSE ackCh
    /\ ackSeen' = (ackSeen \/ (s > 0 /\ s = seq))
    /\ UNCHANGED <<status, sendVars, bufferHigh, viewVars, updCh, wire,
                   client, readCur, readBBox, firstDiff, firstBy, missed,
                   coalesced, burst, throttled, storeVars, sysVars>>

\* the client acks the current diff or one not sent yet
ClientOffer == \E s \in {seq, seq + 1} : ReaderOffer(s, 0)

QueueNext ==
    \/ Connect \/ HandleAck \/ HandleUpdate \/ Close
    \/ ClientOffer \/ Publish \/ NowUpsert

SpecQueue == StoreInit /\ [][QueueNext]_vars

\* C36: while a diff is in flight, an ack of it that the reader has read is
\* in the ack channel until the loop takes it.
C36_CurrentAckNotDropped ==
    (status = "open" /\ inflight /\ ackSeen) =>
        \E i \in DOMAIN ackCh : ackCh[i].seq = seq

-----------------------------------------------------------------------------
(* the ingester polling one aircraft: now TTL against the poll interval *)

\* the default of the opensky.interval flag, seconds
FlagPoll == 60

\* poll intervals a deployment may run with
PollConfigs == {PollValues, {FlagPoll}}

\* the upstream answers with a row of aircraft a and fetchOnce upserts it,
\* then the loop sleeps for the poll interval
PollAnswer ==
    /\ ~panicked /\ ing.pc = "fetch"
    /\ \E r \in SessRows, poll \in UNION PollConfigs :
          /\ Commit(UpsertStates(Store, <<r>>, clock).db)
          /\ Slept("ok", 0, poll, PollOf(poll), 0)
    /\ lastOp' = "upsert" /\ lastBatch' = <<>> /\ nowWritten' = {}
    /\ UNCHANGED <<clock, panicked, wsVars, busVars, srvVars, apiVars,
                   jwtVars, sessVars, diffVars, beatVars, wireVars,
                   stopVars, taskVars>>

\* the timer fires: fetchOnce is entered and sends its request
PollWake ==
    /\ ~panicked /\ ing.pc = "wait" /\ clock >= ing.wakeAt
    /\ ing' = [ing EXCEPT !.pc = "fetch"]
    /\ UNCHANGED <<storeVars, wsVars, busVars, srvVars, apiVars, jwtVars,
                   sessVars, diffVars, beatVars, wireVars, stopVars, taskVars>>

\* time passes, while the loop sleeps or, for one step at most, while the
\* request is under way; keys whose TTL has run out are gone
PollTick ==
    /\ ~panicked
    /\ \/ ing.pc = "wait" /\ clock < ing.wakeAt
       \/ ing.pc = "fetch" /\ clock < ing.wakeAt + ClockStep
    /\ clock + ClockStep <= MaxClock
    /\ clock' = clock + ClockStep
    /\ Commit(DB(Sweep(pos, clock'), Sweep(now, clock'), Sweep(mapcs, clock')))
    /\ lastOp' = "tick" /\ lastBatch' = <<>> /\ nowWritten' = {}
    /\ UNCHANGED <<panicked, wsVars, sysVars>>

PollNext == PollAnswer \/ PollWake \/ PollTick

SpecPoll == StoreInit /\ [][PollNext]_vars

\* C37: from the upsert of an aircraft to the next upsert, which reports it
\* again, the aircraft has a now entry: while the loop sleeps, while the
\* next request is under way, and at the moment the next upsert commits.
C37_NowNeverLapses ==
    (ing.kind = "ok" /\ ing.pc \in {"wait", "fetch"}) => IcaoA \in DOMAIN now

-----------------------------------------------------------------------------
(* app.Run's shutdown against the ingester and a session still running *)

ShutRest ==
    <<ingVars, busVars, conns, hs, wsClients, apiVars, jwtVars, sessVars,
      diffVars, beatVars, wireVars, taskVars>>

StoreClosed == proc.phase = "closed"

\* Run, case <-ctx.Done(): close(stop) after srv.Shutdown has returned
RunCloseStop ==
    /\ proc.phase = "draining"
    /\ proc' = [proc EXCEPT !.phase = "stopping"]
    /\ stopCh' = TRUE
    /\ UNCHANGED <<il, storeVars, wsVars, ShutRest>>

\* Run, case err := <-errCh: the server has exited by itself, close(stop)
RunServerExit ==
    /\ proc.phase = "serving"
    /\ proc' = [proc EXCEPT !.phase = "stopping"]
    /\ stopCh' = TRUE
    /\ UNCHANGED <<il, storeVars, wsVars, ShutRest>>

\* fetchOnce finishes; on a closed store UpsertStates and TouchNow are
\* called all the same, return an error and write nothing
ShutFetched ==
    IF StoreClosed
    THEN /\ il.pc = "fetching"
         /\ il' = [il EXCEPT !.pc = "select", !.fired = FALSE]
         /\ lastOp' \in {"upsert", "touch"}
         /\ UNCHANGED <<clock, pos, now, mapcs, panicked, lastBatch,
                        nowWritten, stopCh, wsVars, StopRest>>
    ELSE IlFetched

\* trySend on a closed store: makeCur calls CurrentAll, which returns an
\* error; trySend returns it and the handler is on its way out
ClosedRead(infl, high, pend) ==
    /\ status' = "failed" /\ lastOp' = "currentAll"
    /\ inflight' = infl /\ bufferHigh' = high /\ pending' = pend
    /\ UNCHANGED <<seq, last, viewVars, wire, client, readCur, readBBox,
                   firstDiff, firstBy, ackSeen, missed, coalesced, burst,
                   clock, pos, now, mapcs, panicked, lastBatch, nowWritten,
                   sysVars>>

ShutConnect ==
    /\ status = "started"
    /\ IF StoreClosed /\ CanSend(inflight, bufferHigh, pending)
       THEN /\ ClosedRead(inflight, bufferHigh, pending)
            /\ UNCHANGED <<ackCh, updCh, throttled>>
       ELSE Connect

ShutUpdate ==
    /\ Serving /\ updCh > 0
    /\ IF StoreClosed /\ CanSend(inflight, bufferHigh, TRUE)
       THEN /\ ClosedRead(inflight, bufferHigh, TRUE)
            /\ updCh' = updCh - 1
            /\ UNCHANGED <<ackCh, throttled>>
       ELSE HandleUpdate

ShutAck ==
    /\ Serving /\ ackCh # <<>>
    /\ IF /\ StoreClosed /\ AckAccepted(Head(ackCh), seq)
          /\ ~BufferHighOf(Head(ackCh).buffered)
          /\ CanSend(FALSE, FALSE, pending)
       THEN /\ ClosedRead(FALSE, FALSE, pending)
            /\ ackCh' = Tail(ackCh)
            /\ throttled' = FALSE
            /\ UNCHANGED updCh
       ELSE HandleAck

ShutNext ==
    \/ IlFirstFetch \/ ShutFetched \/ IlTimer \/ IlSelectStop
    \/ IlSelectTimer
    \/ Signal \/ Drain \/ RunCloseStop \/ RunServerExit \/ StoreClose
    \/ ShutConnect \/ ShutUpdate \/ ShutAck \/ Close
    \/ Publish \/ FrontendAck

SpecShut == StoreInit /\ [][ShutNext]_vars

\* C38: once Run has closed the store, Close stays the last operation
\* called on it: neither the ingester nor a session calls the store again.
C38_StoreIdleOnceClosed == StoreClosed => lastOp = "close"

-----------------------------------------------------------------------------
(* FlightsWSHandler: the handler, its reader goroutine and what they hold *)

TaskRest ==
    <<storeVars, wsVars, ingVars, busOp, conns, hs, proc, apiVars, jwtVars,
      sessVars, diffVars, beatVars, wireVars, stopVars>>

TaskHeld == UNCHANGED <<wsClients, handles, TaskRest>>

ReadErr_PeerOnly(net, peerGone) == peerGone

\* ws.ReadFrame returns an error: the connection was closed on this side,
\* or the peer is gone
ReadErr(net, peerGone) == ~net \/ peerGone

\* the upgrade, registerWS, go reader, UpdatesSubscribe and the initial
\* trySend, whose error makes the handler return
TaskStart(c) ==
    /\ task[c].hpc = "idle"
    /\ \E ok \in BOOLEAN :
          task' = [task EXCEPT ![c] =
                      [NoTask EXCEPT !.hpc = IF ok THEN "loop" ELSE "exiting",
                                     !.why = IF ok THEN "none" ELSE "write",
                                     !.reader = "running", !.net = TRUE]]
    /\ wsClients' = wsClients \cup {c}
    /\ handles' = (c :> 0) @@ handles
    /\ UNCHANGED TaskRest

\* the reader returns, closing done; until then it is in ReadFrame or
\* handling a frame, which never waits for the loop
ReaderEnds(c, peerGone, closeFrame) ==
    /\ task[c].reader = "running"
    /\ ReadErr(task[c].net, peerGone) \/ closeFrame
    /\ task' = [task EXCEPT ![c].reader = "returned", ![c].done = TRUE,
                            ![c].rwhy = IF task[c].net THEN "peer"
                                        ELSE "closed"]
    /\ TaskHeld

\* the peer goes away or sends a close frame
ReaderPeer(c) ==
    /\ task[c].net
    /\ \E gone \in BOOLEAN : ReaderEnds(c, gone, ~gone)

\* the read pending on a connection closed on this side returns
ReaderWakes(c) ==
    /\ ~task[c].net
    /\ ReaderEnds(c, FALSE, FALSE)

\* a case of the select calls trySend, which writes a frame
LoopWrite(c) ==
    /\ task[c].hpc = "loop"
    /\ task' = [task EXCEPT ![c].hpc = "writing"]
    /\ TaskHeld

\* the write returns; an error makes the handler return
WriteEnds(c) ==
    /\ task[c].hpc = "writing"
    /\ \E ok \in BOOLEAN :
          /\ ~task[c].net => ~ok
          /\ task' = [task EXCEPT ![c].hpc = IF ok THEN "loop" ELSE "exiting",
                                  ![c].why = IF ok THEN "none" ELSE "write"]
    /\ TaskHeld

\* case <-r.Context().Done()
LoopCancel(c) ==
    /\ task[c].hpc = "loop"
    /\ task' = [task EXCEPT ![c].hpc = "exiting", ![c].why = "cancel"]
    /\ TaskHeld

\* case <-done
LoopDone(c) ==
    /\ task[c].hpc = "loop" /\ task[c].done
    /\ task' = [task EXCEPT ![c].hpc = "exiting", ![c].why = "done"]
    /\ TaskHeld

\* the deferred calls: ping.Stop, unsubscribe, unregisterWS, ws.Close
HandlerReturn(c) ==
    /\ task[c].hpc = "exiting"
    /\ task' = [task EXCEPT ![c].hpc = "returned", ![c].net = FALSE]
    /\ wsClients' = wsClients \ {c}
    /\ handles' = [x \in DOMAIN handles \ {c} |-> handles[x]]
    /\ UNCHANGED TaskRest

TaskNext ==
    \E c \in Conns :
        \/ TaskStart(c) \/ ReaderPeer(c) \/ ReaderWakes(c)
        \/ LoopWrite(c) \/ WriteEnds(c) \/ LoopCancel(c)
        \/ LoopDone(c) \/ HandlerReturn(c)

\* goroutines that can run do run and a write to the socket returns; a
\* select picks among its ready cases at random, so a case that is ready
\* each time the loop comes back to the select is taken in the end
SpecTasks ==
    /\ StoreInit /\ [][TaskNext]_vars
    /\ \A c \in Conns :
          /\ WF_vars(ReaderWakes(c)) /\ WF_vars(WriteEnds(c))
          /\ SF_vars(LoopDone(c)) /\ WF_vars(HandlerReturn(c))

LoopExited(c) == task[c].hpc \in {"exiting", "returned"}

-----------------------------------------------------------------------------
(* convertCallsignAlternate applied twice *)

\* C40: for every callsign the index holds whose alternate form is not
\* empty, the alternate of the alternate is the normalized callsign.
C40_AlternateRoundTrip ==
    \A cs \in DOMAIN mapcs :
        LET alt == convertCallsignAlternate(cs)
        IN  alt # <<>> => convertCallsignAlternate(alt) = normalizeCallsign(cs)

====
